---------------------------- MODULE Spec2Model ----------------------------
(***************************************************************************)
(* Model of the AI artifact builder: the response parser and the prompt    *)
(* assembly of AnythingLLMService, the relational file store               *)
(* (FileSystemService), the vector index and its structure outline         *)
(* (VectorDBService), the file, chat and project route handlers that keep  *)
(* the stores in step, also when a store or the external model fails, and  *)
(* the frontend hooks and editor that drive them.                          *)
(*                                                                         *)
(* Text is a sequence of symbols.  A symbol is one character ("x", " ",    *)
(* "\n", "/", "_", ...) or one whole tag of the tagging convention         *)
(* (an opening file tag, "</file>", "<thinking>", "</thinking>"): the      *)
(* regular expressions of the parser match tags as units, so a tag is the  *)
(* grain at which they are modelled.  The language names "js" and "text"  *)
(* are single symbols as well.                                             *)
(***************************************************************************)
EXTENDS Integers, Sequences, FiniteSets, TLC

VARIABLES
    raw,        \* parser: the raw model output handed to parseClaudeResponse
    parsed,     \* parser: what parseClaudeResponse returned for raw, or NotParsed
    fileStore,  \* relational table files of the project: path -> row
    index,      \* the project's Chroma collection: id -> entry
    req,        \* the request the last handler served
    resp,       \* the response that handler sent
    inflight,   \* concurrent POST /files/update handlers between their awaits
    hasCollection, \* whether the Chroma collection of the project exists
    chat,       \* the POST /chat/send handler in progress, between its steps
    messages,   \* relational table chat_messages of the project's session
    call,       \* the arguments of the last direct call of a service function
    ret,        \* what that call returned
    route,      \* a file route handler in progress, between its store steps
    projectRows,   \* relational table projects: the ids of its rows
    workspaces,    \* the workspaces of the orchestrator, by slug
    fileRows,      \* relational table files, all projects: a set of rows
    collections,   \* the Chroma collections: name -> (id -> entry)
    sessions,      \* relational table chat_sessions with the messages of each
    senders,       \* concurrent POST /chat/send handlers between their awaits
    projects,      \* useProjects: the project list of the hook
    currentProject, \* useProjects: the selected project
    currentFile,   \* useFileSystem: the open file
    editor,        \* MonacoEditor: hasChanges, isSaving, the editor's text
    pending        \* frontend requests awaiting their response

\* the variables of the chat handler and of direct service calls
chatVars == <<chat, messages>>
fnVars == <<call, ret>>

\* the variables of the step-wise file routes, of the stores of all projects,
\* of the chat sessions and of the frontend
stepVars == <<route>>
tenantVars == <<projectRows, workspaces, fileRows, collections>>
sessionVars == <<sessions, senders>>
uiVars == <<projects, currentProject, currentFile, editor, pending>>
appVars == <<stepVars, tenantVars, sessionVars, uiVars>>

vars == <<raw, parsed, fileStore, index, req, resp, inflight, hasCollection,
          chatVars, fnVars, appVars>>

-----------------------------------------------------------------------------
(* Bounds *)

\* longest raw model output the parser is run on
MaxLen == 5

\* most files in one POST /files/batch
MaxBatch == 2

\* most indexed paths an outline is built from
MaxPaths == 3

\* most context files a prompt is assembled from
MaxContext == 2

\* most POST /chat/send requests that reach the message store
MaxChats == 2

-----------------------------------------------------------------------------
(* The tagging convention *)

\* <file path="a/b" language="js">
OpenA == "<file path=\"a/b\" language=\"js\">"
\* an opening tag whose attribute values carry surrounding blanks
OpenC == "<file path=\" c \" language=\" js\">"
\* an opening tag with an empty path: [^"]+ needs one character, so no match
OpenEmpty == "<file path=\"\" language=\"js\">"
CloseFile == "</file>"
OpenThinking == "<thinking>"
CloseThinking == "</thinking>"

OpenTags == {OpenA, OpenC, OpenEmpty}

\* capture group 1 of fileRegex: the text between the quotes of path="..."
PathAttr(tok) ==
    CASE tok = OpenA -> <<"a", "/", "b">>
      [] tok = OpenC -> <<" ", "c", " ">>
      [] OTHER -> <<>>

\* capture group 2 of fileRegex: the text between the quotes of language="..."
LanguageAttr(tok) ==
    CASE tok = OpenA -> <<"js">>
      [] tok = OpenC -> <<" ", "js">>
      [] tok = OpenEmpty -> <<"js">>
      [] OTHER -> <<>>

\* <file\s+path="([^"]+)"\s+language="([^"]+)">  : both values non-empty
MatchesOpenTag(tok) ==
    /\ tok \in OpenTags
    /\ PathAttr(tok) # <<>>
    /\ LanguageAttr(tok) # <<>>

\* the opening tags fileRegex matches
MatchingOpenTags == {tok \in OpenTags : MatchesOpenTag(tok)}

\* what \s and String.prototype.trim treat as white space
IsSpace(c) == c \in {" ", "\n"}

Alphabet ==
    {"x", " ", "\n", OpenA, OpenC, OpenEmpty,
     CloseFile, OpenThinking, CloseThinking}

\* JavaScript null, as the value of thinking
Null == <<"null">>

-----------------------------------------------------------------------------
(* String helpers of the parser *)

SetMin(S) == CHOOSE m \in S : \A n \in S : m <= n

RECURSIVE TrimStart(_)
TrimStart(s) ==
    IF s # <<>> /\ IsSpace(Head(s)) THEN TrimStart(Tail(s)) ELSE s

RECURSIVE TrimEnd(_)
TrimEnd(s) ==
    IF s # <<>> /\ IsSpace(s[Len(s)])
    THEN TrimEnd(SubSeq(s, 1, Len(s) - 1))
    ELSE s

\* String.prototype.trim
Trim(s) == TrimEnd(TrimStart(s))

\* does pat occur in s at position i
OccursAt(s, pat, i) ==
    /\ i + Len(pat) - 1 <= Len(s)
    /\ SubSeq(s, i, i + Len(pat) - 1) = pat

\* s.replace(pat, '') with a string pattern: the first occurrence only
ReplaceFirst(s, pat) ==
    LET at == {i \in 1..Len(s) : OccursAt(s, pat, i)}
    IN  IF at = {} \/ pat = <<>>
        THEN s
        ELSE LET i == SetMin(at)
             IN  SubSeq(s, 1, i - 1) \o SubSeq(s, i + Len(pat), Len(s))

NoMatch == [start |-> 0, end |-> 0]

\* the leftmost match of opening tag ... close at or after position from, the body
\* non-greedy ([\s\S]*?): it ends at the first close after the opening tag
LazyMatch(text, from, opens, close) ==
    LET starts == {i \in from..Len(text) :
                      /\ text[i] \in opens
                      /\ \E j \in (i + 1)..Len(text) : text[j] = close}
    IN  IF starts = {}
        THEN NoMatch
        ELSE LET i == SetMin(starts)
                 j == SetMin({k \in (i + 1)..Len(text) : text[k] = close})
             IN  [start |-> i, end |-> j]

\* the same with a greedy body ([\s\S]*): it ends at the last close
GreedyMatch(text, from, opens, close) ==
    LET starts == {i \in from..Len(text) :
                      /\ text[i] \in opens
                      /\ \E j \in (i + 1)..Len(text) : text[j] = close}
    IN  IF starts = {}
        THEN NoMatch
        ELSE LET i == SetMin(starts)
                 j == CHOOSE k \in (i + 1)..Len(text) :
                         /\ text[k] = close
                         /\ \A m \in (k + 1)..Len(text) : text[m] # close
             IN  [start |-> i, end |-> j]

\* fileRegex.exec(responseText) with fileRegex.lastIndex = lastIndex
ExecFileRegexGreedy(text, lastIndex) ==
    GreedyMatch(text, lastIndex, MatchingOpenTags, CloseFile)

ExecFileRegex(text, lastIndex) ==
    LazyMatch(text, lastIndex, MatchingOpenTags, CloseFile)

\* text.match(/<thinking>([\s\S]*?)<\/thinking>/)
MatchThinking(text, from) ==
    LazyMatch(text, from, {OpenThinking}, CloseThinking)

\* .replace(/<thinking>[\s\S]*?<\/thinking>/g, '')
RECURSIVE RemoveThinking(_)
RemoveThinking(text) ==
    LET m == MatchThinking(text, 1)
    IN  IF m = NoMatch
        THEN text
        ELSE SubSeq(text, 1, m.start - 1)
                 \o RemoveThinking(SubSeq(text, m.end + 1, Len(text)))

\* length of the run of newlines at the head of s
RECURSIVE NewlineRun(_)
NewlineRun(s) ==
    IF s # <<>> /\ Head(s) = "\n" THEN 1 + NewlineRun(Tail(s)) ELSE 0

\* .replace(/\n{3,}/g, '\n\n')
RECURSIVE CollapseNewlines(_)
CollapseNewlines(s) ==
    IF s = <<>>
    THEN <<>>
    ELSE LET n == NewlineRun(s)
         IN  IF n >= 3
             THEN <<"\n", "\n">> \o CollapseNewlines(SubSeq(s, n + 1, Len(s)))
             ELSE IF n >= 1
             THEN SubSeq(s, 1, n) \o CollapseNewlines(SubSeq(s, n + 1, Len(s)))
             ELSE <<Head(s)>> \o CollapseNewlines(Tail(s))

\* cleanMessage without the newline rule
cleanMessageNoCollapse(text) == Trim(RemoveThinking(text))

\* cleanMessage
cleanMessage(text) == Trim(CollapseNewlines(RemoveThinking(text)))

\* extractThinking
extractThinking(text) ==
    LET m == MatchThinking(text, 1)
    IN  IF m = NoMatch
        THEN Null
        ELSE Trim(SubSeq(text, m.start + 1, m.end - 1))

\* the file pushed for one match of fileRegex
GeneratedFile(text, m) ==
    [path     |-> Trim(PathAttr(text[m.start])),
     language |-> Trim(LanguageAttr(text[m.start])),
     content  |-> Trim(SubSeq(text, m.start + 1, m.end - 1))]

\* the while loop of parseClaudeResponse: files and cleanedMessage after it
RECURSIVE ParseLoop(_, _, _, _)
ParseLoop(text, lastIndex, files, cleaned) ==
    LET m == ExecFileRegex(text, lastIndex)
    IN  IF m = NoMatch
        THEN [files |-> files, cleaned |-> cleaned]
        ELSE ParseLoop(text, m.end + 1,
                       Append(files, GeneratedFile(text, m)),
                       ReplaceFirst(cleaned, SubSeq(text, m.start, m.end)))

\* the thinking of the response: extracted from the file-stripped text
ThinkingOfCleaned(text, cleaned) == extractThinking(cleaned)

\* the thinking of the response: extracted from the original raw text
ThinkingOf(text, cleaned) == extractThinking(text)

parseClaudeResponse(responseText) ==
    LET r == ParseLoop(responseText, 1, <<>>, responseText)
    IN  [message  |-> cleanMessage(r.cleaned),
         files    |-> r.files,
         thinking |-> ThinkingOf(responseText, r.cleaned)]

-----------------------------------------------------------------------------
(* The relational file store: FileSystemService *)

ProjectId == "p1"

\* JavaScript undefined, as the value of an optional request field
Undefined == <<"undefined">>

Text == <<"text">>

Paths == {<<"a", "/", "b">>, <<"a", "_", "b">>, <<"c">>}
Contents == {<<"x">>, <<"y">>}
Languages == {<<"js">>, <<>>, Undefined}

\* saveFile(projectId, path, content, language = 'text'): INSERT .. ON CONFLICT
\* (project_id, path) DO UPDATE; the default applies to undefined only
SavedRow(content, language) ==
    [content  |-> content,
     language |-> IF language = Undefined THEN Text ELSE language]

saveFile(store, path, content, language) ==
    [q \in DOMAIN store \cup {path} |->
        IF q = path THEN SavedRow(content, language) ELSE store[q]]

\* saveFiles: saveFile for each file in turn
RECURSIVE saveFiles(_, _)
saveFiles(store, files) ==
    IF files = <<>>
    THEN store
    ELSE saveFiles(saveFile(store, Head(files).path, Head(files).content,
                            Head(files).language),
                   Tail(files))

\* readFile / deleteFile throw 'File not found' when no row matches
FileExists(store, path) == path \in DOMAIN store

\* deleteFile: DELETE FROM files WHERE project_id = $1 AND path = $2
deleteFile(store, path) == [q \in DOMAIN store \ {path} |-> store[q]]

\* new Error(`File not found: ${path}`), thrown by readFile and deleteFile;
\* the fixed part of the message is one symbol
FileNotFound(path) ==
    [message |-> <<"File not found: ">> \o path, code |-> Undefined]

\* error.message.includes('not found')
IncludesNotFound(message) ==
    \E i \in DOMAIN message : message[i] = "File not found: "

\* every error answered as a server error
ErrorStatusAlways500(error) == 500

\* the catch block of GET and DELETE /files/:projectId/*
ErrorStatus(error) == IF IncludesNotFound(error.message) THEN 404 ELSE 500

-----------------------------------------------------------------------------
(* The vector index: VectorDBService *)

\* path.replace(/\//g, '_')
ReplaceSlashes(path) ==
    [i \in DOMAIN path |-> IF path[i] = "/" THEN "_" ELSE path[i]]

\* `${projectId}_${path.replace(/\//g, '_')}`
EntryId(projectId, path) == <<projectId, "_">> \o ReplaceSlashes(path)

\* the entry upsertFiles writes for one file
Entry(file) ==
    [document |-> file.content,
     path     |-> file.path,
     language |-> IF file.language \in {Undefined, <<>>}
                  THEN Text
                  ELSE file.language]

\* collection.add in place of upsert: a record whose id exists is kept
AddOne(coll, projectId, file) ==
    [id \in DOMAIN coll \cup {EntryId(projectId, file.path)} |->
        IF id \in DOMAIN coll THEN coll[id] ELSE Entry(file)]

\* collection.upsert of one record: insert, or replace the record of that id
UpsertOne(coll, projectId, file) ==
    [id \in DOMAIN coll \cup {EntryId(projectId, file.path)} |->
        IF id = EntryId(projectId, file.path) THEN Entry(file) ELSE coll[id]]

\* upsertFiles: nothing for an empty list, else one upsert of all the files
\* (records of one call are applied in the order given)
RECURSIVE upsertFiles(_, _, _)
upsertFiles(coll, projectId, files) ==
    IF files = <<>>
    THEN coll
    ELSE upsertFiles(UpsertOne(coll, projectId, Head(files)), projectId,
                     Tail(files))

\* deleteFiles: collection.delete({ids}); an id without a record is ignored
deleteFiles(coll, projectId, filePaths) ==
    LET ids == {EntryId(projectId, filePaths[i]) : i \in DOMAIN filePaths}
    IN  [id \in DOMAIN coll \ ids |-> coll[id]]

\* a collection without entries
NoEntries ==
    [id \in {} |-> [document |-> <<>>, path |-> <<>>, language |-> <<>>]]

\* the catch block rethrows what deleteCollection threw
deleteProjectRethrow(coll, exists, reachable) ==
    IF reachable /\ exists
    THEN [threw |-> FALSE, index |-> NoEntries, hasCollection |-> FALSE]
    ELSE [threw |-> TRUE, index |-> coll, hasCollection |-> exists]

\* deleteProject: client.deleteCollection drops the collection with its
\* entries; it throws when the store is unreachable or has no such
\* collection, and the catch block logs the error without rethrowing
deleteProject(coll, exists, reachable) ==
    IF reachable /\ exists
    THEN [threw |-> FALSE, index |-> NoEntries, hasCollection |-> FALSE]
    ELSE [threw |-> FALSE, index |-> coll, hasCollection |-> exists]

-----------------------------------------------------------------------------
(* The project structure outline: getProjectStructure *)

\* path.split('/').filter(p => p): the non-empty parts between separators
RECURSIVE SplitPath(_, _)
SplitPath(path, part) ==
    IF path = <<>>
    THEN IF part = <<>> THEN <<>> ELSE <<part>>
    ELSE IF Head(path) = "/"
    THEN (IF part = <<>> THEN <<>> ELSE <<part>>) \o SplitPath(Tail(path), <<>>)
    ELSE SplitPath(Tail(path), Append(part, Head(path)))

\* the inner forEach of buildFileTree for one path.  A tree is a function
\* from node (the sequence of keys leading to it) to "file" (null) or "dir"
\* ({}); cur is the node `current` points at.
RECURSIVE WalkParts(_, _, _, _)
WalkParts(tree, cur, parts, idx) ==
    IF idx > Len(parts)
    THEN tree
    ELSE LET node == Append(cur, parts[idx])
             last == idx = Len(parts)
             \* !current[part]: absent, or present as null
             t1 == IF node \notin DOMAIN tree \/ tree[node] = "file"
                   THEN [n \in DOMAIN tree \cup {node} |->
                            IF n = node
                            THEN (IF last THEN "file" ELSE "dir")
                            ELSE tree[n]]
                   ELSE tree
             cur1 == IF t1[node] # "file" THEN node ELSE cur
         IN  WalkParts(t1, cur1, parts, idx + 1)

RECURSIVE buildFileTree(_, _)
buildFileTree(paths, tree) ==
    IF paths = <<>>
    THEN tree
    ELSE buildFileTree(Tail(paths),
                       WalkParts(tree, <<>>, SplitPath(Head(paths), <<>>), 1))

\* the collation rank of a character under localeCompare
CharRank(c) ==
    CASE c = "_" -> 0
      [] c = "a" -> 1
      [] c = "b" -> 2
      [] c = "c" -> 3
      [] OTHER -> 4

\* a.localeCompare(b) < 0
RECURSIVE KeyLess(_, _)
KeyLess(a, b) ==
    IF b = <<>> THEN FALSE
    ELSE IF a = <<>> THEN TRUE
    ELSE IF CharRank(Head(a)) # CharRank(Head(b))
    THEN CharRank(Head(a)) < CharRank(Head(b))
    ELSE KeyLess(Tail(a), Tail(b))

\* a comparator by key alone
EntryBeforeByKey(tree, m, n) == KeyLess(m[Len(m)], n[Len(n)])

\* the comparator of treeToString: directories first, then by key
EntryBefore(tree, m, n) ==
    IF tree[m] = "file" /\ tree[n] # "file" THEN FALSE
    ELSE IF tree[m] # "file" /\ tree[n] = "file" THEN TRUE
    ELSE KeyLess(m[Len(m)], n[Len(n)])

Children(tree, node) ==
    {n \in DOMAIN tree :
        Len(n) = Len(node) + 1 /\ SubSeq(n, 1, Len(node)) = node}

\* treeToString: one line per entry, a directory followed by its subtree
RECURSIVE treeToString(_, _)
RECURSIVE RenderEntries(_, _)
RenderEntries(tree, entries) ==
    IF entries = {}
    THEN <<>>
    ELSE LET e == CHOOSE m \in entries :
                      \A n \in entries \ {m} : EntryBefore(tree, m, n)
         IN  <<[indent |-> Len(e) - 1, icon |-> tree[e], key |-> e[Len(e)]]>>
                 \o (IF tree[e] # "file" THEN treeToString(tree, e) ELSE <<>>)
                 \o RenderEntries(tree, entries \ {e})

treeToString(tree, node) == RenderEntries(tree, Children(tree, node))

EmptyTree == [n \in {} |-> "dir"]

EmptyProject == <<[indent |-> 0, icon |-> "text", key |-> <<"Empty project">>]>>

\* the outline of the paths, with nothing in place of an empty listing
ProjectStructureOfPaths(paths) ==
    treeToString(buildFileTree(paths, EmptyTree), <<>>)

\* getProjectStructure once getCollection and collection.get() have answered
\* with the metadata paths in the order given
ProjectStructure(paths) ==
    IF paths = <<>>
    THEN EmptyProject
    ELSE treeToString(buildFileTree(paths, EmptyTree), <<>>)

-----------------------------------------------------------------------------
(* Retrieval: queryRelevantFiles *)

\* queryRelevantFiles(projectId, query, topK = 5)
DefaultTopK == 5

Min(a, b) == IF a <= b THEN a ELSE b

\* the orders in which Chroma may hand back the records of a collection
Orders(coll) ==
    {o \in [1..Cardinality(DOMAIN coll) -> DOMAIN coll] :
        \A i, j \in DOMAIN o : i # j => o[i] # o[j]}

\* what the vector store does during one retrieval: getOrCreateCollection
\* throws, collection.query throws, or both answer.  An answer gives the
\* records by ascending distance (byDistance), the order collection.get()
\* lists them in (stored), and whether getProjectStructure's own store calls
\* succeed (structureOk).
StoreAnswers(coll) ==
    {[outcome |-> "collection_throws"], [outcome |-> "query_throws"]}
    \cup {[outcome |-> "ok", byDistance |-> d, stored |-> g, structureOk |-> k] :
             d \in Orders(coll), g \in Orders(coll), k \in BOOLEAN}

\* a fallback context that carries the placeholder structure
EmptyContextPlaceholder ==
    [threw |-> FALSE, files |-> <<>>, structure |-> EmptyProject]

EmptyContext == [threw |-> FALSE, files |-> <<>>, structure |-> <<>>]

\* the files and the structure of a retrieval the store answered
Retrieved(coll, topK, answer) ==
    [threw     |-> FALSE,
     files     |-> [i \in 1..Min(topK, Len(answer.byDistance)) |->
                       [path     |-> coll[answer.byDistance[i]].path,
                        language |-> coll[answer.byDistance[i]].language,
                        content  |-> coll[answer.byDistance[i]].document]],
     \* getProjectStructure catches its own errors and returns ''
     structure |-> IF answer.structureOk
                   THEN ProjectStructure(
                            [i \in DOMAIN answer.stored |->
                                coll[answer.stored[i]].path])
                   ELSE <<>>]

\* the catch block rethrows instead of returning the empty context
queryRelevantFilesRethrow(coll, topK, answer) ==
    IF answer.outcome # "ok"
    THEN [threw |-> TRUE, files |-> <<>>, structure |-> <<>>]
    ELSE Retrieved(coll, topK, answer)

\* queryRelevantFiles: return { files: [], structure: '' } on any error
queryRelevantFiles(coll, topK, answer) ==
    IF answer.outcome # "ok"
    THEN EmptyContext
    ELSE Retrieved(coll, topK, answer)

-----------------------------------------------------------------------------
(* Prompt assembly: buildEnrichedPrompt *)

\* A prompt is the sequence of the sections appended to it, each a record
\* naming the template text and carrying what is interpolated into it.

\* `# Project Context\n\n`
HeaderSection == [kind |-> "header"]

\* `## Relevant Files:\n\n`
FilesHeading == [kind |-> "files"]

\* `### ${file.path}\n` and the code fence of file.language || 'text'
\* around file.content
FileSection(file) ==
    [kind     |-> "file",
     path     |-> file.path,
     language |-> IF file.language \in {Undefined, <<>>}
                  THEN Text
                  ELSE file.language,
     content  |-> file.content]

\* `## Project Structure:` and the fenced context.structure
StructureSection(structure) == [kind |-> "structure", outline |-> structure]

\* `# Instructions\n\n` and the six fixed instruction lines
InstructionsSection == [kind |-> "instructions"]

\* guidance appended for the refactor mode only
ModeGuidanceRefactorOnly(mode) ==
    IF mode = "refactor" THEN <<[kind |-> "guidance", mode |-> mode]>> ELSE <<>>

\* the sentence appended for options.mode 'refactor' or 'test'
ModeGuidance(mode) ==
    IF mode = "refactor"
    THEN <<[kind |-> "guidance", mode |-> "refactor"]>>
    ELSE IF mode = "test"
    THEN <<[kind |-> "guidance", mode |-> "test"]>>
    ELSE <<>>

\* `# User Request\n\n${userMessage}`
UserRequestSection(userMessage) == [kind |-> "request", message |-> userMessage]

buildEnrichedPrompt(userMessage, context, mode) ==
    <<HeaderSection>>
    \o (IF Len(context.files) > 0
        THEN <<FilesHeading>>
                 \o [i \in DOMAIN context.files |-> FileSection(context.files[i])]
        ELSE <<>>)
    \o (IF context.structure # <<>>
        THEN <<StructureSection(context.structure)>>
        ELSE <<>>)
    \o <<InstructionsSection>>
    \o ModeGuidance(mode)
    \o <<UserRequestSection(userMessage)>>

-----------------------------------------------------------------------------
(* The external model: what POST /workspace/:id/chat answers *)

\* no answer received
NoAnswer == [status |-> 0, body |-> <<>>]

\* every answer taken for a success
ResponseOkAlways(status) == TRUE

\* response.ok of fetch: a status in the range 200-299
ResponseOk(status) == status >= 200 /\ status <= 299

\* new Error(`AnythingLLM API error: ${response.status} - ${errorText}`)
ApiError(answer) ==
    [message |-> [text |-> "AnythingLLM API error", status |-> answer.status,
                  body |-> answer.body],
     code |-> Undefined]

\* the save-and-index branch taken for every answer
HasGeneratedFilesAlways(response) == TRUE

\* response.generatedFiles && response.generatedFiles.length > 0
HasGeneratedFiles(response) == Len(response.files) > 0

\* contextSize: context === 'all' ? 10 : 5
ContextSize(context) == IF context = "all" THEN 10 ELSE 5

-----------------------------------------------------------------------------
(* Initial state *)

NotParsed == [message |-> Null, files |-> <<>>, thinking |-> Null]

NoFiles == [p \in {} |-> SavedRow(<<>>, Text)]

Slots == {"r1", "r2"}
Idle == [pc |-> "idle", path |-> <<>>, content |-> <<>>, language |-> <<>>]

\* no service function called directly yet
NoCall == [fn |-> "none"]
NoReturn == [done |-> FALSE]

\* no POST /chat/send in progress
ChatIdle ==
    [pc |-> "idle", message |-> <<>>, mode |-> "chat", contextSize |-> 0,
     steps |-> <<>>, retrieval |-> "none", context |-> EmptyContext,
     prompt |-> <<>>, modelCalls |-> 0, upstream |-> NoAnswer,
     response |-> NotParsed, upsert |-> "none"]

\* no file route in progress
RouteIdle == [op |-> "none", pc |-> "idle"]

\* no project created yet, no workspace, no file row, no collection
InitTenants ==
    /\ projectRows = {}
    /\ workspaces = {}
    /\ fileRows = {}
    /\ collections = [name \in {} |-> NoEntries]

\* no chat session yet, no POST /chat/send in progress
SenderIdle == [pc |-> "idle", sessionId |-> 0, sent |-> 0]
InitSessions ==
    /\ sessions = <<>>
    /\ senders = [s \in Slots |-> SenderIdle]

\* the frontend before loadProjects has answered
NoProject == "none"
NoFile == [open |-> FALSE]
\* edited marks that the user has typed since the file was opened or saved
EditorClean ==
    [hasChanges |-> FALSE, isSaving |-> FALSE, value |-> <<>>,
     fileChanged |-> FALSE, edited |-> FALSE]
InitUi ==
    /\ projects = <<>>
    /\ currentProject = NoProject
    /\ currentFile = NoFile
    /\ editor = EditorClean
    /\ pending = {}

InitApp ==
    /\ route = RouteIdle
    /\ InitTenants
    /\ InitSessions
    /\ InitUi

Init ==
    /\ InitApp
    /\ raw = <<>>
    /\ parsed = NotParsed
    /\ fileStore = NoFiles
    /\ index = NoEntries
    /\ req = [op |-> "none"]
    /\ resp = [status |-> 0]
    /\ inflight = [s \in Slots |-> Idle]
    /\ hasCollection = FALSE
    /\ chat = ChatIdle
    /\ messages = <<>>
    /\ call = NoCall
    /\ ret = NoReturn

-----------------------------------------------------------------------------
(* Route handlers, each run from request to response *)

\* POST /api/files/update
UpdateFile ==
    \E path \in Paths \cup {<<>>}, content \in Contents, language \in Languages :
        /\ req' = [op |-> "update", path |-> path, content |-> content,
                   language |-> language]
        /\ IF path = <<>>
           THEN /\ resp' = [status |-> 400]
                /\ UNCHANGED <<fileStore, index, hasCollection>>
           ELSE /\ fileStore' = saveFile(fileStore, path, content, language)
                /\ index' = upsertFiles(index, ProjectId,
                                <<[path |-> path, content |-> content,
                                   language |-> language]>>)
                /\ hasCollection' = TRUE
                /\ resp' = [status |-> 200, file |-> fileStore'[path]]
        /\ UNCHANGED <<appVars, raw, parsed, inflight, chatVars, fnVars>>

BatchFiles ==
    {[path |-> p, content |-> <<"x">>, language |-> <<"js">>] : p \in Paths}

\* the file lists of a batch request: no index id twice in one upsert call
BatchLists ==
    {fs \in UNION {[1..n -> BatchFiles] : n \in 0..MaxBatch} :
        \A i, j \in DOMAIN fs :
            i # j => EntryId(ProjectId, fs[i].path) # EntryId(ProjectId, fs[j].path)}

\* POST /api/files/batch
BatchUpdate ==
    \E files \in BatchLists :
        /\ req' = [op |-> "batch", files |-> files]
        /\ fileStore' = saveFiles(fileStore, files)
        /\ index' = upsertFiles(index, ProjectId, files)
        \* upsertFiles returns before getOrCreateCollection for an empty list
        /\ hasCollection' = (hasCollection \/ files # <<>>)
        /\ resp' = [status |-> 200, count |-> Len(files)]
        /\ UNCHANGED <<appVars, raw, parsed, inflight, chatVars, fnVars>>

\* DELETE /api/files/:projectId/*
DeleteFile ==
    \E path \in Paths \cup {<<>>} :
        /\ req' = [op |-> "delete", path |-> path]
        /\ IF path = <<>>
           THEN /\ resp' = [status |-> 400]
                /\ UNCHANGED <<fileStore, index, hasCollection>>
           ELSE IF ~FileExists(fileStore, path)
           THEN /\ resp' = [status |-> ErrorStatus(FileNotFound(path))]
                /\ UNCHANGED <<fileStore, index, hasCollection>>
           ELSE /\ fileStore' = deleteFile(fileStore, path)
                /\ index' = deleteFiles(index, ProjectId, <<path>>)
                /\ hasCollection' = TRUE
                /\ resp' = [status |-> 200, file |-> fileStore[path]]
        /\ UNCHANGED <<appVars, raw, parsed, inflight, chatVars, fnVars>>

\* GET /api/files/:projectId/*
ReadFile ==
    \E path \in Paths \cup {<<>>} :
        /\ req' = [op |-> "read", path |-> path]
        /\ resp' = IF path = <<>>
                   THEN [status |-> 400]
                   ELSE IF ~FileExists(fileStore, path)
                   THEN [status |-> ErrorStatus(FileNotFound(path))]
                   ELSE [status |-> 200, file |-> fileStore[path]]
        /\ UNCHANGED <<appVars, fileStore, index, hasCollection, raw, parsed, inflight,
                       chatVars, fnVars>>

\* POST /api/files/rename
RenameFile ==
    \E oldPath \in Paths, newPath \in Paths :
        /\ req' = [op |-> "rename", oldPath |-> oldPath, newPath |-> newPath]
        /\ IF ~FileExists(fileStore, oldPath)
           THEN /\ resp' = [status |-> 500]
                /\ UNCHANGED <<fileStore, index, hasCollection>>
           ELSE LET oldFile == fileStore[oldPath]
                    saved == saveFile(fileStore, newPath, oldFile.content,
                                      oldFile.language)
                IN  /\ fileStore' = deleteFile(saved, oldPath)
                    /\ index' = upsertFiles(
                                    deleteFiles(index, ProjectId, <<oldPath>>),
                                    ProjectId,
                                    <<[path |-> newPath,
                                       content |-> oldFile.content,
                                       language |-> oldFile.language]>>)
                    /\ hasCollection' = TRUE
                    /\ resp' = [status |-> 200, file |-> saved[newPath]]
        /\ UNCHANGED <<appVars, raw, parsed, inflight, chatVars, fnVars>>

\* the model outputs POST /chat/send is run on
ModelReplies ==
    {<<"x">>,
     <<OpenA, "x", CloseFile>>,
     <<OpenThinking, "x", CloseThinking, OpenC, "y", CloseFile>>,
     <<OpenC, "x", CloseFile, "\n", OpenA, "y", CloseFile>>}

\* POST /api/chat/send run from request to response with every store and
\* the model answering: the retrieval gets or creates the collection, the
\* answer is parsed, the generated files are saved and indexed
ChatSend ==
    \E textResponse \in ModelReplies :
        LET response == parseClaudeResponse(textResponse)
        IN  /\ req' = [op |-> "chat", textResponse |-> textResponse]
            /\ IF response.files # <<>>
               THEN /\ fileStore' = saveFiles(fileStore, response.files)
                    /\ index' = upsertFiles(index, ProjectId, response.files)
               ELSE UNCHANGED <<fileStore, index>>
            /\ hasCollection' = TRUE
            /\ resp' = [status |-> 200, message |-> response.message,
                        generatedFiles |-> response.files,
                        thinking |-> response.thinking]
            /\ UNCHANGED <<appVars, raw, parsed, inflight, chatVars, fnVars>>

\* POST /api/files/search
SearchFiles ==
    \E topK \in {1, DefaultTopK}, answer \in StoreAnswers(index) :
        LET results == queryRelevantFiles(index, topK, answer)
        IN  /\ req' = [op |-> "search", limit |-> topK,
                       outcome |-> answer.outcome,
                       structureOk |-> answer.outcome = "ok" /\ answer.structureOk]
            /\ resp' = IF results.threw
                       THEN [status |-> 500]
                       ELSE [status |-> 200, results |-> results.files,
                             structure |-> results.structure]
            \* getOrCreateCollection creates the collection unless it throws
            /\ hasCollection' =
                   (hasCollection \/ answer.outcome # "collection_throws")
            /\ UNCHANGED <<appVars, fileStore, index, raw, parsed, inflight, chatVars,
                           fnVars>>

Next ==
    \/ UpdateFile
    \/ BatchUpdate
    \/ DeleteFile
    \/ RenameFile
    \/ ChatSend
    \/ ReadFile

Spec == Init /\ [][Next]_vars

\* the same requests, one at a time, each answered with success
Answered200 == resp'.status = 200

NextOk ==
    \/ UpdateFile /\ Answered200
    \/ BatchUpdate /\ Answered200
    \/ DeleteFile /\ Answered200
    \/ RenameFile /\ Answered200
    \/ ChatSend /\ Answered200
    \/ ReadFile /\ Answered200

SpecOk == Init /\ [][NextOk]_vars

-----------------------------------------------------------------------------
(* Retrieval over the collections a batch of files leaves behind *)

InitSearch ==
    \E files \in BatchLists :
        /\ InitApp
        /\ fileStore = saveFiles(NoFiles, files)
        /\ index = upsertFiles(NoEntries, ProjectId, files)
        /\ raw = <<>>
        /\ parsed = NotParsed
        /\ req = [op |-> "batch", files |-> files]
        /\ resp = [status |-> 200, count |-> Len(files)]
        /\ inflight = [s \in Slots |-> Idle]
        /\ hasCollection = (files # <<>>)
        /\ chat = ChatIdle
        /\ messages = <<>>
        /\ call = NoCall
        /\ ret = NoReturn

NextSearch == SearchFiles \/ UpdateFile

SpecSearch == InitSearch /\ [][NextSearch]_vars

-----------------------------------------------------------------------------
(* The life of a project's collection: filled by batches, searched, dropped *)

\* vectorDB.deleteProject(projectId), as DELETE /api/projects/:id calls it
DeleteProjectIndex ==
    \E reachable \in BOOLEAN :
        LET done == deleteProject(index, hasCollection, reachable)
        IN  /\ call' = [fn |-> "deleteProject", existed |-> hasCollection,
                        reachable |-> reachable]
            /\ ret' = [done |-> TRUE, threw |-> done.threw]
            /\ index' = done.index
            /\ hasCollection' = done.hasCollection
            /\ UNCHANGED <<appVars, fileStore, raw, parsed, req, resp, inflight,
                           chatVars>>

NextIndex == SearchFiles \/ BatchUpdate \/ DeleteProjectIndex

SpecIndex == Init /\ [][NextIndex]_vars

-----------------------------------------------------------------------------
(* POST /api/chat/send step by step: the handler suspends at each await,    *)
(* and the vector store or the model may fail it.                          *)

\* what the external model answers: a success with a text, or a failure
UpstreamAnswers ==
    {[status |-> 200, body |-> r] : r \in ModelReplies}
        \cup {[status |-> 500, body |-> <<"x">>]}

Step(name) == [chat EXCEPT !.steps = Append(chat.steps, name)]

\* res.status(500).json({error, details: error.message}) of the catch block
ChatFailed(c, error) ==
    /\ resp' = [status |-> 500, details |-> error.message]
    /\ chat' = [c EXCEPT !.pc = "responded",
                         !.steps = Append(c.steps, "respond")]

UserMessagesStored ==
    Cardinality({i \in DOMAIN messages : messages[i].role = "user"})

\* the request arrives: destructure the body, validate projectId and message
ChatReceive ==
    \E message \in {<<"m">>, <<>>}, mode \in {"chat", "test"},
       context \in {"relevant", "all"} :
        /\ chat.pc \in {"idle", "responded"}
        /\ UserMessagesStored < MaxChats
        /\ req' = [op |-> "chat", message |-> message, mode |-> mode,
                   context |-> context]
        /\ IF message = <<>>
           THEN /\ resp' = [status |-> 400]
                /\ chat' = [ChatIdle EXCEPT !.pc = "responded",
                                            !.steps = <<"respond">>]
           ELSE /\ resp' = [status |-> 0]
                /\ chat' = [ChatIdle EXCEPT !.pc = "session",
                                            !.message = message,
                                            !.mode = mode,
                                            !.contextSize = ContextSize(context)]
        /\ UNCHANGED <<appVars, fileStore, index, hasCollection, messages, raw, parsed,
                       inflight, fnVars>>

\* await getOrCreateSession(projectId)
ChatSession ==
    /\ chat.pc = "session"
    /\ chat' = [Step("session") EXCEPT !.pc = "saveUser"]
    /\ UNCHANGED <<appVars, fileStore, index, hasCollection, messages, raw, parsed,
                   inflight, fnVars, req, resp>>

\* await saveMessage(session.id, 'user', message)
ChatSaveUser ==
    /\ chat.pc = "saveUser"
    /\ messages' = Append(messages, [role |-> "user", content |-> chat.message])
    /\ chat' = [Step("saveUser") EXCEPT !.pc = "retrieve"]
    /\ UNCHANGED <<appVars, fileStore, index, hasCollection, raw, parsed, inflight,
                   fnVars, req, resp>>

\* sendMessage step 1: await vectorDB.queryRelevantFiles(...)
ChatRetrieve ==
    \E answer \in StoreAnswers(index) :
        LET context == queryRelevantFiles(index, chat.contextSize, answer)
            c == [Step("retrieve") EXCEPT !.retrieval = answer.outcome,
                                          !.context = context]
        IN  /\ chat.pc = "retrieve"
            /\ hasCollection' =
                   (hasCollection \/ answer.outcome # "collection_throws")
            /\ IF context.threw
               THEN ChatFailed(c, [message |-> <<"store error">>,
                                   code |-> Undefined])
               ELSE /\ chat' = [c EXCEPT !.pc = "assemble"]
                    /\ UNCHANGED resp
            /\ UNCHANGED <<appVars, fileStore, index, messages, raw, parsed, inflight,
                           fnVars, req>>

\* sendMessage step 2: buildEnrichedPrompt(message, relevantContext, options)
ChatAssemble ==
    /\ chat.pc = "assemble"
    /\ chat' = [Step("assemble") EXCEPT
                    !.pc = "call",
                    !.prompt = buildEnrichedPrompt(chat.message, chat.context,
                                                   chat.mode)]
    /\ UNCHANGED <<appVars, fileStore, index, hasCollection, messages, raw, parsed,
                   inflight, fnVars, req, resp>>

\* sendMessage step 3: await fetch(...), then throw unless response.ok
ChatCallModel ==
    \E answer \in UpstreamAnswers :
        LET c == [Step("call") EXCEPT !.modelCalls = chat.modelCalls + 1,
                                      !.upstream = answer]
        IN  /\ chat.pc = "call"
            /\ IF ~ResponseOk(answer.status)
               THEN ChatFailed(c, ApiError(answer))
               ELSE /\ chat' = [c EXCEPT !.pc = "parse"]
                    /\ UNCHANGED resp
            /\ UNCHANGED <<appVars, fileStore, index, hasCollection, messages, raw,
                           parsed, inflight, fnVars, req>>

\* sendMessage step 4: parseClaudeResponse(data.textResponse || '')
ChatParse ==
    /\ chat.pc = "parse"
    /\ chat' = [Step("parse") EXCEPT
                    !.pc = "saveAssistant",
                    !.response = parseClaudeResponse(chat.upstream.body)]
    /\ UNCHANGED <<appVars, fileStore, index, hasCollection, messages, raw, parsed,
                   inflight, fnVars, req, resp>>

\* await saveMessage(session.id, 'assistant', response.message, {files})
ChatSaveAssistant ==
    /\ chat.pc = "saveAssistant"
    /\ messages' = Append(messages, [role |-> "assistant",
                                     content |-> chat.response.message])
    /\ chat' = [Step("saveAssistant") EXCEPT
                    !.pc = IF HasGeneratedFiles(chat.response)
                           THEN "saveFiles"
                           ELSE "respond"]
    /\ UNCHANGED <<appVars, fileStore, index, hasCollection, raw, parsed, inflight,
                   fnVars, req, resp>>

\* await fileSystem.saveFiles(projectId, response.generatedFiles)
ChatSaveFiles ==
    /\ chat.pc = "saveFiles"
    /\ fileStore' = saveFiles(fileStore, chat.response.files)
    /\ chat' = [Step("save") EXCEPT !.pc = "upsert"]
    /\ UNCHANGED <<appVars, index, hasCollection, messages, raw, parsed, inflight,
                   fnVars, req, resp>>

\* await anythingLLM.updateProjectContext(projectId, response.generatedFiles):
\* upsertFiles, which rethrows what the vector store throws
ChatUpsert ==
    \E outcome \in {"ok", "throws"} :
        LET c == [Step("upsert") EXCEPT !.upsert = outcome]
        IN  /\ chat.pc = "upsert"
            /\ IF outcome = "throws"
               THEN /\ ChatFailed(c, [message |-> <<"store error">>,
                                      code |-> Undefined])
                    /\ UNCHANGED <<index, hasCollection>>
               ELSE /\ index' = upsertFiles(index, ProjectId,
                                            chat.response.files)
                    /\ hasCollection' =
                           (hasCollection \/ chat.response.files # <<>>)
                    /\ chat' = [c EXCEPT !.pc = "respond"]
                    /\ UNCHANGED resp
            /\ UNCHANGED <<appVars, fileStore, messages, raw, parsed, inflight, fnVars,
                           req>>

\* the generated files are logged and res.json sends the response
ChatRespond ==
    /\ chat.pc = "respond"
    /\ resp' = [status |-> 200, message |-> chat.response.message,
                generatedFiles |-> chat.response.files,
                thinking |-> chat.response.thinking]
    /\ chat' = [Step("respond") EXCEPT !.pc = "responded"]
    /\ UNCHANGED <<appVars, fileStore, index, hasCollection, messages, raw, parsed,
                   inflight, fnVars, req>>

NextChat ==
    \/ ChatReceive
    \/ ChatSession
    \/ ChatSaveUser
    \/ ChatRetrieve
    \/ ChatAssemble
    \/ ChatCallModel
    \/ ChatParse
    \/ ChatSaveAssistant
    \/ ChatSaveFiles
    \/ ChatUpsert
    \/ ChatRespond

SpecChat == Init /\ [][NextChat]_vars

-----------------------------------------------------------------------------
(* Requests served while the relational store rejects an operation *)

\* a project id without a row in projects
UnknownProject == "p2"

\* the errors pg raises in these routes: a foreign-key violation for a
\* project_id without a project, a refused connection.  No statement of the
\* chat, files and projects routes can violate a unique key: files are
\* written with ON CONFLICT (project_id, path) DO UPDATE.
DbFailures ==
    {[code |-> "23503", message |-> <<"violates foreign key constraint">>],
     [code |-> "ECONNREFUSED", message |-> <<"connect ECONNREFUSED">>]}

\* the project a request names when the store answers it with failure
FailingProject(failure) ==
    IF failure.code = "23503" THEN UnknownProject ELSE ProjectId

\* the status errorHandler gives an error that reaches it
errorHandler(err) ==
    CASE err.code = "23505" -> 409
      [] err.code = "23503" -> 400
      [] err.code = "ECONNREFUSED" -> 503
      [] OTHER -> 500

\* the catch block every route of chat.js, files.js and projects.js ends
\* with: the route answers itself and hands nothing to next()
RouteCatch(error) == [status |-> 500, details |-> error.message]

\* POST /api/files/update whose saveFile is rejected
UpdateFileDbError ==
    \E path \in Paths, content \in Contents, failure \in DbFailures :
        /\ req' = [op |-> "update", projectId |-> FailingProject(failure),
                   path |-> path, content |-> content, language |-> <<"js">>,
                   failure |-> failure.code]
        /\ resp' = RouteCatch(failure)
        /\ UNCHANGED <<appVars, fileStore, index, hasCollection, raw, parsed, inflight,
                       chatVars, fnVars>>

\* GET /api/files/:projectId/* whose readFile cannot connect
ReadFileDbError ==
    \E path \in Paths, failure \in {f \in DbFailures : f.code = "ECONNREFUSED"} :
        /\ req' = [op |-> "read", projectId |-> FailingProject(failure),
                   path |-> path, failure |-> failure.code]
        /\ resp' = [status |-> ErrorStatus(failure), details |-> failure.message]
        /\ UNCHANGED <<appVars, fileStore, index, hasCollection, raw, parsed, inflight,
                       chatVars, fnVars>>

\* POST /api/chat/send whose getOrCreateSession is rejected
ChatSendDbError ==
    \E failure \in DbFailures :
        /\ req' = [op |-> "chat", projectId |-> FailingProject(failure),
                   message |-> <<"m">>, failure |-> failure.code]
        /\ resp' = RouteCatch(failure)
        /\ UNCHANGED <<appVars, fileStore, index, hasCollection, raw, parsed, inflight,
                       chatVars, fnVars>>

\* GET /api/projects whose pool.connect is refused
ListProjectsDbError ==
    \E failure \in {f \in DbFailures : f.code = "ECONNREFUSED"} :
        /\ req' = [op |-> "projects", failure |-> failure.code]
        /\ resp' = RouteCatch(failure)
        /\ UNCHANGED <<appVars, fileStore, index, hasCollection, raw, parsed, inflight,
                       chatVars, fnVars>>

NextDbError ==
    \/ UpdateFile
    \/ UpdateFileDbError
    \/ ReadFileDbError
    \/ ChatSendDbError
    \/ ListProjectsDbError

SpecDbError == Init /\ [][NextDbError]_vars

-----------------------------------------------------------------------------
(* The outline of every list of up to MaxPaths indexed paths *)

\* paths of files at the root, in directories, and in a directory named as
\* a file is
TreePaths ==
    {<<"a">>, <<"b">>, <<"a", "/", "b">>, <<"a", "/", "c">>,
     <<"b", "/", "a">>, <<"c", "/", "a", "/", "b">>}

\* the metadata paths collection.get() lists: one per entry, in any order
PathLists ==
    {ps \in UNION {[1..n -> TreePaths] : n \in 0..MaxPaths} :
        \A i, j \in DOMAIN ps :
            i # j => EntryId(ProjectId, ps[i]) # EntryId(ProjectId, ps[j])}

InitTree ==
    /\ InitApp
    /\ call \in {[fn |-> "getProjectStructure", paths |-> ps] : ps \in PathLists}
    /\ ret = NoReturn
    /\ raw = <<>>
    /\ parsed = NotParsed
    /\ fileStore = NoFiles
    /\ index = NoEntries
    /\ req = [op |-> "none"]
    /\ resp = [status |-> 0]
    /\ inflight = [s \in Slots |-> Idle]
    /\ hasCollection = TRUE
    /\ chat = ChatIdle
    /\ messages = <<>>

\* getProjectStructure from the listing on: buildFileTree, treeToString
GetProjectStructure ==
    /\ call.fn = "getProjectStructure"
    /\ ret = NoReturn
    /\ ret' = [done |-> TRUE, value |-> ProjectStructure(call.paths)]
    /\ UNCHANGED <<appVars, call, raw, parsed, fileStore, index, req, resp, inflight,
                   hasCollection, chatVars>>

NextTree == GetProjectStructure

SpecTree == InitTree /\ [][NextTree]_vars

-----------------------------------------------------------------------------
(* The prompt of every context of up to MaxContext files *)

\* files as a retrieval returns them: the language of an entry is never
\* empty, upsertFiles having stored 'text' for a missing one
ContextFiles ==
    {[path |-> p, language |-> l, content |-> <<"x">>] :
        p \in {<<"a", "/", "b">>, <<"c">>}, l \in {<<"js">>, Text}}

ContextFileLists ==
    {fs \in UNION {[1..n -> ContextFiles] : n \in 0..MaxContext} :
        \A i, j \in DOMAIN fs : i # j => fs[i].path # fs[j].path}

\* the structure of a retrieval: '', 'Empty project' or an outline
ContextStructures ==
    {<<>>, EmptyProject, ProjectStructure(<<<<"a", "/", "b">>, <<"c">>>>)}

\* the modes of the request body, 'chat' being the default
Modes == {"chat", "refactor", "test"}

UserMessages == {<<"m">>, <<"m", "\n", OpenA>>}

InitPrompt ==
    /\ InitApp
    /\ call \in {[fn |-> "buildEnrichedPrompt", userMessage |-> m,
                   context |-> [threw |-> FALSE, files |-> fs, structure |-> st],
                   mode |-> mode] :
                     m \in UserMessages, fs \in ContextFileLists,
                     st \in ContextStructures, mode \in Modes}
    /\ ret = NoReturn
    /\ raw = <<>>
    /\ parsed = NotParsed
    /\ fileStore = NoFiles
    /\ index = NoEntries
    /\ req = [op |-> "none"]
    /\ resp = [status |-> 0]
    /\ inflight = [s \in Slots |-> Idle]
    /\ hasCollection = TRUE
    /\ chat = ChatIdle
    /\ messages = <<>>

\* one call of buildEnrichedPrompt(userMessage, context, options)
BuildPrompt ==
    /\ call.fn = "buildEnrichedPrompt"
    /\ ret = NoReturn
    /\ ret' = [done |-> TRUE,
               value |-> buildEnrichedPrompt(call.userMessage, call.context,
                                             call.mode)]
    /\ UNCHANGED <<appVars, call, raw, parsed, fileStore, index, req, resp, inflight,
                   hasCollection, chatVars>>

NextPrompt == BuildPrompt

SpecPrompt == InitPrompt /\ [][NextPrompt]_vars

-----------------------------------------------------------------------------
(* The parser run on every raw text up to MaxLen symbols *)

RawTexts == UNION {[1..n -> Alphabet] : n \in 0..MaxLen}

InitParse ==
    /\ InitApp
    /\ raw \in RawTexts
    /\ parsed = NotParsed
    /\ fileStore = NoFiles
    /\ index = NoEntries
    /\ req = [op |-> "none"]
    /\ resp = [status |-> 0]
    /\ inflight = [s \in Slots |-> Idle]
    /\ hasCollection = FALSE
    /\ chat = ChatIdle
    /\ messages = <<>>
    /\ call = NoCall
    /\ ret = NoReturn

ParseResponse ==
    /\ parsed = NotParsed
    /\ parsed' = parseClaudeResponse(raw)
    /\ UNCHANGED <<appVars, raw, fileStore, index, req, resp, inflight, hasCollection,
                   chatVars, fnVars>>

NextParse == ParseResponse

SpecParse == InitParse /\ [][NextParse]_vars

-----------------------------------------------------------------------------
(* Two POST /files/update handlers running concurrently: each suspends at  *)
(* await fileSystem.saveFile and at await vectorDB.upsertFiles.            *)

\* the handler up to the file-store write
UpdateSave(s) ==
    \E path \in Paths, content \in Contents, language \in Languages :
        /\ inflight[s].pc = "idle"
        /\ fileStore' = saveFile(fileStore, path, content, language)
        /\ inflight' = [inflight EXCEPT ![s] =
                           [pc |-> "saved", path |-> path, content |-> content,
                            language |-> language]]
        /\ UNCHANGED <<appVars, index, raw, parsed, req, resp, hasCollection, chatVars,
                       fnVars>>

\* the handler from the index upsert to res.json
UpdateUpsert(s) ==
    /\ inflight[s].pc = "saved"
    /\ index' = upsertFiles(index, ProjectId,
                    <<[path |-> inflight[s].path,
                       content |-> inflight[s].content,
                       language |-> inflight[s].language]>>)
    /\ hasCollection' = TRUE
    /\ inflight' = [inflight EXCEPT ![s].pc = "responded"]
    /\ UNCHANGED <<appVars, fileStore, raw, parsed, req, resp, chatVars, fnVars>>

NextRace == \E s \in Slots : UpdateSave(s) \/ UpdateUpsert(s)

SpecRace == Init /\ [][NextRace]_vars

-----------------------------------------------------------------------------
(* Properties of the response parser (SpecParse) *)

Done == parsed # NotParsed

OpenIdx(text) == {i \in DOMAIN text : text[i] \in OpenTags}
CloseIdx(text) == {i \in DOMAIN text : text[i] = CloseFile}

\* the n-th smallest element of a set of numbers
Nth(S, n) == CHOOSE x \in S : Cardinality({y \in S : y < x}) = n - 1

\* text is a sequence of well-formed file blocks: every opening tag has
\* a non-empty path and language, the n-th opening tag is closed by the n-th
\* closing tag, and the next block starts after it
WellFormedBlocks(text) ==
    /\ \A i \in OpenIdx(text) : MatchesOpenTag(text[i])
    /\ Cardinality(OpenIdx(text)) = Cardinality(CloseIdx(text))
    /\ \A n \in 1..Cardinality(OpenIdx(text)) :
          /\ Nth(OpenIdx(text), n) < Nth(CloseIdx(text), n)
          /\ n < Cardinality(OpenIdx(text)) =>
                 Nth(CloseIdx(text), n) < Nth(OpenIdx(text), n + 1)

\* C1: for a raw text made of N well-formed file blocks in sequence, the
\* parser returns exactly N files, the i-th being the trimmed path, trimmed
\* language and trimmed content of the i-th block.
C1_OrderPreservation ==
    (Done /\ WellFormedBlocks(raw)) =>
        /\ Len(parsed.files) = Cardinality(OpenIdx(raw))
        /\ \A n \in 1..Cardinality(OpenIdx(raw)) :
              LET o == Nth(OpenIdx(raw), n)
                  c == Nth(CloseIdx(raw), n)
              IN  /\ parsed.files[n].path = Trim(PathAttr(raw[o]))
                  /\ parsed.files[n].language = Trim(LanguageAttr(raw[o]))
                  /\ parsed.files[n].content = Trim(SubSeq(raw, o + 1, c - 1))

\* two blocks parsed, in order, the first with blanks trimmed from its path
C1_Witness ==
    /\ Done
    /\ WellFormedBlocks(raw)
    /\ Cardinality(OpenIdx(raw)) = 2
    /\ Len(parsed.files) = 2
    /\ parsed.files[1].path = <<"c">>
    /\ parsed.files[2].path = <<"a", "/", "b">>
    /\ parsed.files[1].content = <<"x">>

Markers == OpenTags \cup {CloseFile, OpenThinking, CloseThinking}

\* C2: when a file block or a thinking block was extracted, the returned
\* message contains no file-block marker and no thinking marker.
C2_NoMarkersInMessage ==
    (Done /\ (parsed.files # <<>> \/ parsed.thinking # Null)) =>
        \A i \in DOMAIN parsed.message : parsed.message[i] \notin Markers

TagFree(text) == \A i \in DOMAIN text : text[i] \notin Markers

\* C3: thinking is the trimmed content of the first closed thinking block of
\* the raw text (wherever it lies), null when there is none; and a raw text
\* of one thinking block X followed by tag-free text T gives
\* thinking = trim(X), message = T cleaned, files = [].
C3_ThinkingFromRawText ==
    Done =>
        /\ parsed.thinking = Null <=>
               ~ \E i, j \in DOMAIN raw :
                     i < j /\ raw[i] = OpenThinking /\ raw[j] = CloseThinking
        /\ \A i, j \in DOMAIN raw :
              ( /\ i < j
                /\ raw[i] = OpenThinking
                /\ raw[j] = CloseThinking
                /\ \A k \in 1..(i - 1) :
                      raw[k] = OpenThinking =>
                          \A m \in (k + 1)..Len(raw) : raw[m] # CloseThinking
                /\ \A k \in (i + 1)..(j - 1) : raw[k] # CloseThinking )
              => parsed.thinking = Trim(SubSeq(raw, i + 1, j - 1))
        /\ \A j \in DOMAIN raw :
              ( /\ raw[1] = OpenThinking
                /\ raw[j] = CloseThinking
                /\ TagFree(SubSeq(raw, 2, j - 1))
                /\ TagFree(SubSeq(raw, j + 1, Len(raw))) )
              => /\ parsed.thinking = Trim(SubSeq(raw, 2, j - 1))
                 /\ parsed.message =
                        Trim(CollapseNewlines(SubSeq(raw, j + 1, Len(raw))))
                 /\ parsed.files = <<>>

\* a thinking block inside a file block: the file is extracted and stripped
\* from the message, the thinking is still found
C3_Witness ==
    /\ Done
    /\ Len(raw) = 5
    /\ MatchesOpenTag(raw[1])
    /\ raw[2] = OpenThinking
    /\ raw[4] = CloseThinking
    /\ raw[5] = CloseFile
    /\ Len(parsed.files) = 1
    /\ parsed.thinking = <<"x">>
    /\ parsed.message = <<>>

HasClosedThinking(text) ==
    \E i, j \in DOMAIN text :
        i < j /\ text[i] = OpenThinking /\ text[j] = CloseThinking

\* C4: a raw text with an opening file tag, no </file> anywhere and no
\* thinking block parses (no error) to files = [] and to the raw text with
\* runs of three or more newlines collapsed to two and the ends trimmed.
C4_UnclosedTagInert ==
    ( /\ Done
      /\ \E i \in DOMAIN raw : MatchesOpenTag(raw[i])
      /\ CloseIdx(raw) = {}
      /\ ~HasClosedThinking(raw) )
    => /\ parsed.files = <<>>
       /\ parsed.message = Trim(CollapseNewlines(raw))

\* an unclosed tag after a run of three newlines: the run is collapsed, the
\* tag stays in the message
C4_Witness ==
    /\ Done
    /\ raw = <<"x", "\n", "\n", "\n", OpenA>>
    /\ parsed.files = <<>>
    /\ parsed.message = <<"x", "\n", "\n", OpenA>>

-----------------------------------------------------------------------------
(* Properties of the two stores (Spec, SpecRace, SpecSearch) *)

\* the index entries whose metadata name path
EntriesOf(coll, path) == {id \in DOMAIN coll : coll[id].path = path}

\* C5: after file-mutating requests that ran one at a time and all
\* succeeded, a path has an index entry exactly when it has a file row, and
\* the entry's document is the row's content.
C5_StoresAgree ==
    req.op # "none" =>
        /\ \A p \in Paths : (EntriesOf(index, p) # {}) <=> FileExists(fileStore, p)
        /\ \A id \in DOMAIN index :
              FileExists(fileStore, index[id].path) =>
                  index[id].document = fileStore[index[id].path].content

\* C6: two concurrent updates of one path with different content, both
\* answered: the index entry of the path holds the content of the file row.
C6_LastWriterWinsConsistently ==
    ( /\ \A s \in Slots : inflight[s].pc = "responded"
      /\ inflight["r1"].path = inflight["r2"].path
      /\ inflight["r1"].content # inflight["r2"].content )
    => \A id \in EntriesOf(index, inflight["r1"].path) :
           index[id].document = fileStore[inflight["r1"].path].content

\* the language an upsert stores for the one it was given
StoredLanguage(language) ==
    IF language \in {Undefined, <<>>} THEN Text ELSE language

\* exactly one entry names the file's path, and it holds content and language
OneEntryHolding(coll, file, language) ==
    /\ Cardinality(EntriesOf(coll, file.path)) = 1
    /\ \A id \in EntriesOf(coll, file.path) :
          /\ coll[id].document = file.content
          /\ coll[id].language = language

\* C7 (as amended): after any number of upserts of a path, the latest one
\* leaves exactly one entry for it, holding that upsert's content and its
\* language, a missing or empty language being stored as 'text'; after
\* deleteFiles of the path no entry names it.
C7_UpsertReplaces ==
    /\ (req.op = "update" /\ resp.status = 200) =>
           OneEntryHolding(index, req, StoredLanguage(req.language))
    /\ req.op = "batch" =>
           \A i \in DOMAIN req.files :
               OneEntryHolding(index, req.files[i],
                               StoredLanguage(req.files[i].language))
    /\ (req.op = "delete" /\ resp.status = 200) =>
           EntriesOf(index, req.path) = {}

\* an update that gave an empty language, over an index that holds another
\* path as well
C7_Witness ==
    /\ req.op = "update"
    /\ resp.status = 200
    /\ req.language = <<>>
    /\ req.content = <<"y">>
    /\ OneEntryHolding(index, req, Text)
    /\ Cardinality(DOMAIN index) = 2

\* C7 as claimed: the entry holds the language of the most recent upsert
C7_LatestLanguageHeld ==
    (req.op = "update" /\ resp.status = 200 /\ req.language # Undefined) =>
        OneEntryHolding(index, req, req.language)

\* C8: the ids of two distinct paths differ, so a request that indexes or
\* removes one path leaves the entry of every other path as it was.
C8_OtherEntriesUntouched ==
    [][ (req'.op \in {"update", "delete"} /\ resp'.status = 200) =>
            \A id \in DOMAIN index :
                index[id].path # req'.path =>
                    id \in DOMAIN index' /\ index'[id] = index[id] ]_vars

\* C9: after a successful rename the file store holds newPath with the
\* content and language oldPath had, the index holds newPath with that
\* content, and when the paths differ oldPath is in neither.
C9_RenameMovesFile ==
    [][ (req'.op = "rename" /\ resp'.status = 200) =>
            /\ FileExists(fileStore', req'.newPath)
            /\ fileStore'[req'.newPath] = fileStore[req'.oldPath]
            /\ EntriesOf(index', req'.newPath) # {}
            /\ \A id \in EntriesOf(index', req'.newPath) :
                  index'[id].document = fileStore[req'.oldPath].content
            /\ req'.newPath # req'.oldPath =>
                  /\ ~FileExists(fileStore', req'.oldPath)
                  /\ EntriesOf(index', req'.oldPath) = {} ]_vars

\* C10: when getOrCreateCollection or the similarity query throws,
\* queryRelevantFiles returns {files: [], structure: ''} and nothing
\* propagates: the search is answered with the empty result.
C10_RetrievalDegrades ==
    (req.op = "search" /\ req.outcome # "ok") =>
        /\ resp.status = 200
        /\ resp.results = <<>>
        /\ resp.structure = <<>>

\* the similarity query throws over a collection that holds entries
C10_Witness ==
    /\ req.op = "search"
    /\ req.outcome = "query_throws"
    /\ DOMAIN index # {}
    /\ resp.status = 200
    /\ resp.results = <<>>

-----------------------------------------------------------------------------
(* Properties of reading and deleting an absent file (Spec) *)

\* C19: a GET or DELETE of /files/:projectId/* for a path that has no row
\* in the file store is answered 404, and the file store, the index and
\* the collection are left exactly as they were.
C19_AbsentPathNotFound ==
    [][(/\ req'.op \in {"read", "delete"}
        /\ req'.path # <<>>
        /\ ~FileExists(fileStore, req'.path))
           => (/\ resp'.status = 404
               /\ UNCHANGED <<fileStore, index, hasCollection>>)]_vars

\* a DELETE of an absent path answered 404 while other files are stored
C19_Witness ==
    /\ req.op = "delete"
    /\ req.path # <<>>
    /\ resp.status = 404
    /\ ~FileExists(fileStore, req.path)
    /\ fileStore # NoFiles
    /\ index # NoEntries

-----------------------------------------------------------------------------
(* Properties of the index of a project (SpecIndex) *)

\* C12 as stated: a retrieval for a project without index entries, whether
\* or not its collection exists, returns no files and the empty structure.
C12_EmptyResultWithoutIndex ==
    (req.op = "search" /\ index = NoEntries) =>
        /\ resp.status = 200
        /\ resp.results = <<>>
        /\ resp.structure = <<>>

\* C12: a retrieval for a project without index entries, whether or not
\* its collection exists, is answered without error and returns no files;
\* its structure is the text 'Empty project' when the store answers the
\* structure lookup, and the empty text when a store call fails.
C12_NoFilesWithoutIndex ==
    [][(SearchFiles /\ index = NoEntries) =>
          /\ resp'.status = 200
          /\ resp'.results = <<>>
          /\ resp'.structure =
                 IF req'.structureOk THEN EmptyProject ELSE <<>>
          /\ index' = NoEntries]_vars

\* a retrieval on an existing, empty collection returned 'Empty project'
C12_Witness ==
    /\ req.op = "search"
    /\ index = NoEntries
    /\ hasCollection
    /\ resp.status = 200
    /\ resp.results = <<>>
    /\ resp.structure = EmptyProject

\* C20: deleteProject returns normally whether the collection exists, does
\* not exist or the store call fails; when the collection existed and the
\* store is reachable, the project has no collection and no index entries
\* once it has returned.
C20_DeleteProjectNeverRaises ==
    [][DeleteProjectIndex =>
          /\ ret'.threw = FALSE
          /\ (hasCollection /\ call'.reachable) =>
                 (index' = NoEntries /\ ~hasCollection')]_vars

\* deleteProject dropped a collection that held entries
C20_Witness ==
    /\ call.fn = "deleteProject"
    /\ call.existed
    /\ call.reachable
    /\ ret.threw = FALSE
    /\ fileStore # NoFiles
    /\ index = NoEntries
    /\ ~hasCollection

-----------------------------------------------------------------------------
(* Properties of the structure outline (SpecTree) *)

Outlined == call.fn = "getProjectStructure" /\ ret.done /\ call.paths # <<>>

\* the line of the directory that line i of an outline stands under
ParentLine(out, i) ==
    CHOOSE j \in 1..(i - 1) :
        /\ out[j].indent = out[i].indent - 1
        /\ \A k \in (j + 1)..(i - 1) : out[k].indent >= out[i].indent

\* the keys from the root down to line i
RECURSIVE LinePath(_, _)
LinePath(out, i) ==
    IF out[i].indent = 0
    THEN <<out[i].key>>
    ELSE Append(LinePath(out, ParentLine(out, i)), out[i].key)

\* lines i < j stand under the same directory
SiblingLines(out, i, j) ==
    /\ i < j
    /\ out[i].indent = out[j].indent
    /\ \A k \in i..j : out[k].indent >= out[i].indent

IsPrefix(a, b) == Len(a) <= Len(b) /\ SubSeq(b, 1, Len(a)) = a

\* C16: in the outline of any list of indexed paths, the entries of every
\* directory level list all directories before all files, directories in
\* alphabetical order and files in alphabetical order, and the entries of a
\* directory follow its line directly, one indentation step deeper.
C16_OutlineOrder ==
    Outlined =>
        /\ ret.value[1].indent = 0
        /\ \A i \in 2..Len(ret.value) :
              /\ ret.value[i].indent <= ret.value[i - 1].indent + 1
              /\ ret.value[i].indent = ret.value[i - 1].indent + 1 =>
                     ret.value[i - 1].icon = "dir"
        /\ \A i \in DOMAIN ret.value :
              /\ \E q \in DOMAIN call.paths :
                     IsPrefix(LinePath(ret.value, i), SplitPath(call.paths[q], <<>>))
              /\ ret.value[i].icon = "dir" =>
                     (i < Len(ret.value) /\ ret.value[i + 1].indent = ret.value[i].indent + 1)
        /\ \A i, j \in DOMAIN ret.value :
              SiblingLines(ret.value, i, j) =>
                  /\ ~(ret.value[i].icon = "file" /\ ret.value[j].icon = "dir")
                  /\ ret.value[i].icon = ret.value[j].icon => KeyLess(ret.value[i].key, ret.value[j].key)

\* directory b, holding b/a, is listed before the root file a
C16_Witness ==
    /\ Outlined
    /\ call.paths = <<<<"a">>, <<"b", "/", "a">>>>
    /\ ret.value = <<[indent |-> 0, icon |-> "dir", key |-> <<"b">>],
                     [indent |-> 1, icon |-> "file", key |-> <<"a">>],
                     [indent |-> 0, icon |-> "file", key |-> <<"a">>]>>

\* C17: every indexed path appears in the outline as a file entry under its
\* directories, also when one indexed path is a directory prefix of
\* another.
C17_EveryPathListed ==
    Outlined =>
        \A q \in DOMAIN call.paths :
            \E i \in DOMAIN ret.value :
                /\ ret.value[i].icon = "file"
                /\ LinePath(ret.value, i) = SplitPath(call.paths[q], <<>>)

-----------------------------------------------------------------------------
(* Properties of prompt assembly (SpecPrompt) *)

Assembled == call.fn = "buildEnrichedPrompt" /\ ret.done

\* the number of sections a prompt has before its instructions
ContextSections(context) ==
    1 + (IF Len(context.files) > 0 THEN 1 + Len(context.files) ELSE 0)
      + (IF context.structure # <<>> THEN 1 ELSE 0)

\* the prompt is, in this order: the header; when there are context files,
\* their heading and one section per file in retrieval order with its path,
\* language and content; the structure when it is not empty; the
\* instructions; the guidance of the mode exactly for refactor and test; the
\* user request with the message as given
PromptInOrder ==
    Assembled =>
        LET prompt == ret.value
            files == call.context.files
            n == Len(files)
            k == ContextSections(call.context)
            guided == call.mode \in {"refactor", "test"}
        IN  /\ Len(prompt) = k + 2 + (IF guided THEN 1 ELSE 0)
            /\ prompt[1] = HeaderSection
            /\ n > 0 =>
                   /\ prompt[2] = FilesHeading
                   /\ \A i \in 1..n :
                          /\ prompt[2 + i].kind = "file"
                          /\ prompt[2 + i].path = files[i].path
                          /\ prompt[2 + i].language = files[i].language
                          /\ prompt[2 + i].content = files[i].content
            /\ n = 0 => \A i \in DOMAIN prompt :
                            prompt[i].kind \notin {"files", "file"}
            /\ IF call.context.structure # <<>>
               THEN prompt[k] = StructureSection(call.context.structure)
               ELSE \A i \in DOMAIN prompt : prompt[i].kind # "structure"
            /\ prompt[k + 1] = InstructionsSection
            /\ IF guided
               THEN prompt[k + 2] = [kind |-> "guidance", mode |-> call.mode]
               ELSE \A i \in DOMAIN prompt : prompt[i].kind # "guidance"
            /\ prompt[Len(prompt)] = UserRequestSection(call.userMessage)

\* C15: buildEnrichedPrompt changes nothing but its result, and the prompt
\* it returns is the concatenation, in this fixed order, of the header, one
\* sub-section per context file in retrieval order when there are context
\* files, the structure outline when it is non-empty, the fixed
\* instructions, the mode guidance exactly when the mode is 'refactor' or
\* 'test', and last the user message verbatim.
C15_PromptAssembly ==
    /\ []PromptInOrder
    /\ [][BuildPrompt =>
              UNCHANGED <<call, fileStore, index, hasCollection, messages, chat,
                          req, resp>>]_vars

\* a prompt with two context files, a structure and test guidance
C15_Witness ==
    /\ Assembled
    /\ Len(call.context.files) = 2
    /\ call.context.files[1].path = <<"c">>
    /\ call.context.structure # <<>>
    /\ call.mode = "test"
    /\ Len(ret.value) = 8
    /\ ret.value[3].path = <<"c">>
    /\ ret.value[7].kind = "guidance"
    /\ ret.value[8].message = call.userMessage

-----------------------------------------------------------------------------
(* Properties of POST /chat/send (SpecChat) *)

RetrievalFailed == chat.retrieval \in {"collection_throws", "query_throws"}

Count(steps, name) == Cardinality({i \in DOMAIN steps : steps[i] = name})

C13_ModelFailureSurfacedOnce ==
    [][(ChatCallModel /\ chat'.upstream.status \notin 200..299) =>
          /\ chat'.pc = "responded"
          /\ resp' = [status |-> 500, details |-> ApiError(chat'.upstream).message]
          /\ resp'.details.status = chat'.upstream.status
          /\ resp'.details.body = chat'.upstream.body
          /\ chat'.modelCalls = 1
          /\ chat'.steps = <<"session", "saveUser", "retrieve", "assemble",
                             "call", "respond">>
          /\ UNCHANGED <<fileStore, index, messages>>
          /\ messages[Len(messages)].role = "user"]_vars

\* the second request of a session failed at the model: the stores hold
\* what the first request generated, and the last message is the user's
C13_Witness ==
    /\ chat.pc = "responded"
    /\ chat.upstream.status = 500
    /\ resp.status = 500
    /\ resp.details.status = 500
    /\ Len(messages) = 3
    /\ messages[3].role = "user"
    /\ fileStore # NoFiles
    /\ index # NoEntries

\* the steps of the pipeline, and the sending of the response
PipelineSteps == {"retrieve", "assemble", "call", "parse", "save", "upsert",
                  "respond"}

IsPipelineStep(name) == name \in PipelineSteps

\* C14: a POST /chat/send answered with success has performed, in this
\* order and once each, one retrieval, one prompt assembly, one model call,
\* one parse and - exactly when a file was parsed - one save of the
\* generated files followed by one index upsert; the response is sent after
\* the last of them.
C14_PipelineOrder ==
    (chat.pc = "responded" /\ resp.status = 200) =>
        /\ SelectSeq(chat.steps, IsPipelineStep) =
               <<"retrieve", "assemble", "call", "parse">>
               \o (IF chat.response.files # <<>>
                   THEN <<"save", "upsert">>
                   ELSE <<>>)
               \o <<"respond">>
        /\ chat.modelCalls = 1

\* a request that generated two files and one that generated none
C14_Witness ==
    /\ chat.pc = "responded"
    /\ resp.status = 200
    /\ Len(chat.response.files) = 2
    /\ Count(chat.steps, "save") = 1
    /\ Count(chat.steps, "upsert") = 1
    /\ chat.steps[Len(chat.steps)] = "respond"
    /\ Len(messages) = 4
    /\ messages[2].content = <<"x">>

-----------------------------------------------------------------------------
(* Properties of relational-store failures (SpecDbError) *)

\* C18: a request of the chat, files or projects endpoints during which a
\* relational-store operation fails is answered 409 for a unique-key
\* violation (23505), 400 for a foreign-key violation (23503) and 503 for a
\* refused connection (ECONNREFUSED).
C18_StoreErrorsMapped ==
    "failure" \in DOMAIN req =>
        resp.status = errorHandler([code |-> req.failure])

-----------------------------------------------------------------------------
(* The file routes step by step.  A handler suspends at every await of a   *)
(* store call, and every store call can throw: the relational store        *)
(* rejects a statement, the vector store is unreachable                    *)
(* (getOrCreateCollection throws) or rejects the write.  A throw lands in  *)
(* the route's catch block, which answers and ends the request.            *)

\* what a store call does
DbOutcomes == {"ok", "throws"}
IndexOutcomes == {"ok", "unreachable", "rejected"}

\* a request is served from start to answer before the next one starts
RouteFree == route.pc \in {"idle", "done", "failed"}

\* the handler of a request at its first await, with the stores as it found
\* them
RouteStarted(op, pc) ==
    [op |-> op, pc |-> pc, steps |-> <<>>,
     storeBefore |-> fileStore, indexBefore |-> index]

\* a store step of the handler completed
StepDone(r, step, pc) == [r EXCEPT !.steps = Append(@, step), !.pc = pc]

\* the catch block: the request ends at the step that threw
StepFailed(r, step) ==
    [op |-> r.op, pc |-> "failed", steps |-> r.steps, failedAt |-> step,
     storeBefore |-> r.storeBefore, indexBefore |-> r.indexBefore]

\* res.json: the request ends
RouteDone(r, step) ==
    [op |-> r.op, pc |-> "done", steps |-> Append(r.steps, step),
     storeBefore |-> r.storeBefore, indexBefore |-> r.indexBefore]

\* getOrCreateCollection creates the collection unless it throws
CollectionAfter(outcome) == hasCollection \/ outcome # "unreachable"

restVars == <<raw, parsed, inflight, chatVars, fnVars, tenantVars,
              sessionVars, uiVars>>

\* POST /api/files/update up to await fileSystem.saveFile
UpdateSaveFile ==
    \E path \in Paths, content \in Contents, outcome \in DbOutcomes :
        /\ RouteFree
        /\ req' = [op |-> "update", path |-> path, content |-> content,
                   language |-> <<"js">>]
        /\ IF outcome = "ok"
           THEN /\ fileStore' = saveFile(fileStore, path, content, <<"js">>)
                /\ route' = StepDone(RouteStarted("update", "idle"), "save",
                                     "saved")
                /\ resp' = [status |-> 0]
           ELSE /\ route' = StepFailed(RouteStarted("update", "idle"), "save")
                /\ resp' = [status |-> 500]
                /\ UNCHANGED fileStore
        /\ UNCHANGED <<index, hasCollection, restVars>>

\* POST /api/files/update from await vectorDB.upsertFiles to the answer
UpdateUpsertFiles ==
    \E outcome \in IndexOutcomes :
        /\ route.op = "update" /\ route.pc = "saved"
        /\ hasCollection' = CollectionAfter(outcome)
        /\ IF outcome = "ok"
           THEN /\ index' = upsertFiles(index, ProjectId,
                                <<[path |-> req.path, content |-> req.content,
                                   language |-> req.language]>>)
                /\ route' = RouteDone(route, "indexUpsert")
                /\ resp' = [status |-> 200, file |-> fileStore[req.path]]
           ELSE /\ route' = StepFailed(route, "indexUpsert")
                /\ resp' = [status |-> 500]
                /\ UNCHANGED index
        /\ UNCHANGED <<fileStore, req, restVars>>

\* POST /api/files/batch: the request arrives, saveFiles starts its loop
BatchStart ==
    \E files \in BatchLists :
        /\ RouteFree
        /\ req' = [op |-> "batch", files |-> files]
        /\ route' = RouteStarted("batch", "saving")
        /\ resp' = [status |-> 0]
        /\ UNCHANGED <<fileStore, index, hasCollection, restVars>>

\* saveFiles: one turn of the loop, await this.saveFile of the next file
BatchSaveFile ==
    \E outcome \in DbOutcomes :
        /\ route.op = "batch" /\ route.pc = "saving"
        /\ Len(route.steps) < Len(req.files)
        /\ LET file == req.files[Len(route.steps) + 1]
           IN  IF outcome = "ok"
               THEN /\ fileStore' = saveFile(fileStore, file.path,
                                             file.content, file.language)
                    /\ route' = StepDone(route, "save", "saving")
                    /\ UNCHANGED resp
               ELSE /\ route' = StepFailed(route, "save")
                    /\ resp' = [status |-> 500]
                    /\ UNCHANGED fileStore
        /\ UNCHANGED <<index, hasCollection, req, restVars>>

\* POST /api/files/batch from await vectorDB.upsertFiles to the answer;
\* upsertFiles returns at once for an empty list
BatchUpsertFiles ==
    \E outcome \in IndexOutcomes :
        /\ route.op = "batch" /\ route.pc = "saving"
        /\ Len(route.steps) = Len(req.files)
        /\ req.files = <<>> => outcome = "ok"
        /\ hasCollection' = IF req.files = <<>>
                            THEN hasCollection
                            ELSE CollectionAfter(outcome)
        /\ IF outcome = "ok"
           THEN /\ index' = upsertFiles(index, ProjectId, req.files)
                /\ route' = RouteDone(route, "indexUpsert")
                /\ resp' = [status |-> 200, count |-> Len(req.files)]
           ELSE /\ route' = StepFailed(route, "indexUpsert")
                /\ resp' = [status |-> 500]
                /\ UNCHANGED index
        /\ UNCHANGED <<fileStore, req, restVars>>

\* DELETE /api/files/:projectId/* up to await fileSystem.deleteFile
DeleteDeleteFile ==
    \E path \in Paths, outcome \in DbOutcomes :
        /\ RouteFree
        /\ req' = [op |-> "delete", path |-> path]
        /\ IF outcome = "throws"
           THEN /\ route' = StepFailed(RouteStarted("delete", "idle"),
                                       "delete")
                /\ resp' = [status |-> 500]
                /\ UNCHANGED fileStore
           ELSE IF ~FileExists(fileStore, path)
           THEN /\ route' = StepFailed(RouteStarted("delete", "idle"),
                                       "delete")
                /\ resp' = [status |-> ErrorStatus(FileNotFound(path))]
                /\ UNCHANGED fileStore
           ELSE /\ fileStore' = deleteFile(fileStore, path)
                /\ route' = StepDone(RouteStarted("delete", "idle"), "delete",
                                     "deleted")
                /\ resp' = [status |-> 0]
        /\ UNCHANGED <<index, hasCollection, restVars>>

\* DELETE /api/files/:projectId/* from await vectorDB.deleteFiles to the
\* answer
DeleteDeleteFiles ==
    \E outcome \in IndexOutcomes :
        /\ route.op = "delete" /\ route.pc = "deleted"
        /\ hasCollection' = CollectionAfter(outcome)
        /\ IF outcome = "ok"
           THEN /\ index' = deleteFiles(index, ProjectId, <<req.path>>)
                /\ route' = RouteDone(route, "indexDelete")
                /\ resp' = [status |-> 200,
                            file |-> route.storeBefore[req.path]]
           ELSE /\ route' = StepFailed(route, "indexDelete")
                /\ resp' = [status |-> 500]
                /\ UNCHANGED index
        /\ UNCHANGED <<fileStore, req, restVars>>

\* POST /api/files/rename up to await fileSystem.readFile
RenameReadFile ==
    \E oldPath \in Paths, newPath \in Paths, outcome \in DbOutcomes :
        /\ RouteFree
        /\ IF outcome = "ok" /\ FileExists(fileStore, oldPath)
           THEN /\ req' = [op |-> "rename", oldPath |-> oldPath,
                           newPath |-> newPath,
                           oldFile |-> fileStore[oldPath]]
                /\ route' = [RouteStarted("rename", "read") EXCEPT
                                !.steps = <<>>]
                /\ resp' = [status |-> 0]
           ELSE /\ req' = [op |-> "rename", oldPath |-> oldPath,
                           newPath |-> newPath]
                /\ route' = StepFailed(RouteStarted("rename", "idle"), "read")
                /\ resp' = [status |-> 500]
        /\ UNCHANGED <<fileStore, index, hasCollection, restVars>>

\* POST /api/files/rename: await fileSystem.saveFile under newPath
RenameSaveFile ==
    \E outcome \in DbOutcomes :
        /\ route.op = "rename" /\ route.pc = "read"
        /\ IF outcome = "ok"
           THEN /\ fileStore' = saveFile(fileStore, req.newPath,
                                    req.oldFile.content, req.oldFile.language)
                /\ route' = StepDone(route, "save", "saved")
                /\ UNCHANGED resp
           ELSE /\ route' = StepFailed(route, "save")
                /\ resp' = [status |-> 500]
                /\ UNCHANGED fileStore
        /\ UNCHANGED <<index, hasCollection, req, restVars>>

\* a rename whose failed deleteFile takes back the row saved under newPath
RenameDeleteFileUndo ==
    \E outcome \in DbOutcomes :
        /\ route.op = "rename" /\ route.pc = "saved"
        /\ IF outcome = "ok"
           THEN /\ fileStore' = deleteFile(fileStore, req.oldPath)
                /\ route' = StepDone(route, "delete", "deleted")
                /\ UNCHANGED resp
           ELSE /\ route' = StepFailed(route, "delete")
                /\ resp' = [status |-> 500]
                /\ fileStore' = route.storeBefore
        /\ UNCHANGED <<index, hasCollection, req, restVars>>

\* POST /api/files/rename: await fileSystem.deleteFile of oldPath
RenameDeleteFile ==
    \E outcome \in DbOutcomes :
        /\ route.op = "rename" /\ route.pc = "saved"
        /\ IF outcome = "ok"
           THEN /\ fileStore' = deleteFile(fileStore, req.oldPath)
                /\ route' = StepDone(route, "delete", "deleted")
                /\ UNCHANGED resp
           ELSE /\ route' = StepFailed(route, "delete")
                /\ resp' = [status |-> 500]
                /\ UNCHANGED fileStore
        /\ UNCHANGED <<index, hasCollection, req, restVars>>

\* POST /api/files/rename: await vectorDB.deleteFiles of oldPath
RenameDeleteFiles ==
    \E outcome \in IndexOutcomes :
        /\ route.op = "rename" /\ route.pc = "deleted"
        /\ hasCollection' = CollectionAfter(outcome)
        /\ IF outcome = "ok"
           THEN /\ index' = deleteFiles(index, ProjectId, <<req.oldPath>>)
                /\ route' = StepDone(route, "indexDelete", "unindexed")
                /\ UNCHANGED resp
           ELSE /\ route' = StepFailed(route, "indexDelete")
                /\ resp' = [status |-> 500]
                /\ UNCHANGED index
        /\ UNCHANGED <<fileStore, req, restVars>>

\* POST /api/files/rename from await vectorDB.upsertFiles of newPath to the
\* answer
RenameUpsertFiles ==
    \E outcome \in IndexOutcomes :
        /\ route.op = "rename" /\ route.pc = "unindexed"
        /\ hasCollection' = CollectionAfter(outcome)
        /\ IF outcome = "ok"
           THEN /\ index' = upsertFiles(index, ProjectId,
                                <<[path |-> req.newPath,
                                   content |-> req.oldFile.content,
                                   language |-> req.oldFile.language]>>)
                /\ route' = RouteDone(route, "indexUpsert")
                \* newFile, the row saveFile returned
                /\ resp' = [status |-> 200,
                            file |-> SavedRow(req.oldFile.content,
                                              req.oldFile.language)]
           ELSE /\ route' = StepFailed(route, "indexUpsert")
                /\ resp' = [status |-> 500]
                /\ UNCHANGED index
        /\ UNCHANGED <<fileStore, req, restVars>>

NextSteps ==
    \/ UpdateSaveFile \/ UpdateUpsertFiles
    \/ BatchStart \/ BatchSaveFile \/ BatchUpsertFiles
    \/ DeleteDeleteFile \/ DeleteDeleteFiles
    \/ RenameReadFile \/ RenameSaveFile \/ RenameDeleteFile
    \/ RenameDeleteFiles \/ RenameUpsertFiles

SpecSteps == Init /\ [][NextSteps]_vars

-----------------------------------------------------------------------------
(* Properties of the step-wise file routes (SpecSteps) *)

\* the handler has completed this store step
Did(step) == \E i \in DOMAIN route.steps : route.steps[i] = step

\* the four store steps of POST /files/rename
RenameOrder == <<"save", "delete", "indexDelete", "indexUpsert">>

\* the index holds an entry for this path
Indexed(coll, path) == \E id \in DOMAIN coll : coll[id].path = path

\* a rename of one path to another, indexed before the request, that failed
\* after both file-store steps and before any index step took effect
RenameFailedBetween ==
    /\ route.op = "rename" /\ route.pc = "failed"
    /\ route.failedAt = "indexDelete"
    /\ req.oldPath # req.newPath
    /\ Indexed(route.indexBefore, req.oldPath)

\* C23 as stated: a rename that fails between the file-store steps and the
\* index steps leaves the index with the stale oldPath entry and without any
\* newPath entry.
C23_NoNewPathEntryAfterFailure ==
    RenameFailedBetween =>
        /\ Indexed(index, req.oldPath)
        /\ ~Indexed(index, req.newPath)

\* C23: POST /files/rename runs its store steps in the order save newPath,
\* delete oldPath, remove oldPath from the index, upsert newPath into the
\* index; a step that throws ends the request with status 500 and what the
\* earlier steps did stays; a failure between the file-store steps and the
\* index steps leaves the index exactly as it was before the request, so it
\* still holds the oldPath entry, and a newPath entry only if newPath was
\* indexed before.
C23_RenameStepsInOrder ==
    (route.op = "rename" /\ route.pc # "idle") =>
        /\ IsPrefix(route.steps, RenameOrder)
        /\ route.pc = "failed" =>
            /\ resp.status = 500
            /\ ~Did("save") => fileStore = route.storeBefore
            /\ Did("save") =>
                \/ req.oldPath = req.newPath /\ Did("delete")
                \/ /\ FileExists(fileStore, req.newPath)
                   /\ fileStore[req.newPath].content = req.oldFile.content
            /\ Did("delete") => ~FileExists(fileStore, req.oldPath)
            /\ ~Did("indexDelete") => index = route.indexBefore
            /\ Did("indexDelete") =>
                EntryId(ProjectId, req.oldPath) \notin DOMAIN index
            /\ RenameFailedBetween =>
                /\ Indexed(index, req.oldPath)
                /\ Indexed(index, req.newPath)
                       = Indexed(route.indexBefore, req.newPath)

\* c renamed to a/b fails at the index: both rows were written, the index
\* still lists c
C23_Witness ==
    /\ RenameFailedBetween
    /\ route.steps = <<"save", "delete">>
    /\ FileExists(fileStore, req.newPath)
    /\ ~FileExists(fileStore, req.oldPath)
    /\ ~Indexed(route.indexBefore, req.newPath)
    /\ ~Indexed(index, req.newPath)

\* C24: a file-mutating request that answers with an error leaves the
\* relational file store exactly as it was before the request.
C24_ErrorLeavesStoreUnchanged ==
    (route.pc = "failed" /\ resp.status >= 400) =>
        fileStore = route.storeBefore

-----------------------------------------------------------------------------
(* The stores of all projects.  The relational tables projects and files,  *)
(* the orchestrator's workspaces and the Chroma collections are shared by  *)
(* every project; what belongs to a project is decided by the project_id   *)
(* column, the workspace slug and the collection name.                     *)

\* the ids uuid_generate_v4() hands out
ProjectIds == {ProjectId, UnknownProject}

\* the paths and the content of the files written in this part
ProjectPaths == {<<"c">>, <<"a", "/", "b">>}
ProjectContent == <<"x">>

\* name: `project_${projectId}`
CollectionNameShared(projectId) == <<"project_">>

CollectionName(projectId) == <<"project_", projectId>>

\* client.getOrCreateCollection({name})
getOrCreateCollection(colls, projectId) ==
    [name \in DOMAIN colls \cup {CollectionName(projectId)} |->
        IF name \in DOMAIN colls THEN colls[name] ELSE NoEntries]

\* client.deleteCollection({name}) inside deleteProject
DropCollection(colls, projectId, reachable) ==
    LET name == CollectionName(projectId)
        dropped == deleteProject(IF name \in DOMAIN colls
                                 THEN colls[name]
                                 ELSE NoEntries,
                                 name \in DOMAIN colls, reachable)
    IN  IF dropped.hasCollection
        THEN colls
        ELSE [n \in DOMAIN colls \ {name} |-> colls[n]]

\* a row of table files
FileRow(projectId, path, content, language) ==
    [project_id |-> projectId, path |-> path,
     content |-> SavedRow(content, language).content,
     language |-> SavedRow(content, language).language]

\* WHERE project_id = $1 AND path = $2
Matches(row, projectId, path) ==
    row.project_id = projectId /\ row.path = path

\* INSERT INTO files .. ON CONFLICT (project_id, path) DO UPDATE
InsertFile(rows, projectId, path, content, language) ==
    {r \in rows : ~Matches(r, projectId, path)}
        \cup {FileRow(projectId, path, content, language)}

\* DELETE FROM files WHERE project_id = $1 AND path = $2
DeleteFileRows(rows, projectId, path) ==
    {r \in rows : ~Matches(r, projectId, path)}

\* ON DELETE CASCADE of files.project_id
CascadeFiles(rows, projectId) == {r \in rows : r.project_id # projectId}

\* what the orchestrator does during ensureWorkspace: it answers both
\* requests, it refuses the POST, or it cannot be reached
WorkspaceOutcomes == {"ok", "rejected", "unreachable"}

\* ensureWorkspace: GET the workspace of that slug; POST one when the GET
\* is not ok; throw when the POST is not ok or a fetch fails
ensureWorkspace(ws, projectId, outcome) ==
    IF outcome = "unreachable"
    THEN [threw |-> TRUE, workspaces |-> ws]
    ELSE IF projectId \in ws
    THEN [threw |-> FALSE, workspaces |-> ws]
    ELSE IF outcome = "rejected"
    THEN [threw |-> TRUE, workspaces |-> ws]
    ELSE [threw |-> FALSE, workspaces |-> ws \cup {projectId}]

\* an id no store has seen: uuid_generate_v4() never repeats one
Unused(id) ==
    /\ id \notin projectRows
    /\ id \notin workspaces
    /\ \A r \in fileRows : r.project_id # id
    /\ CollectionName(id) \notin DOMAIN collections

otherVars == <<raw, parsed, fileStore, index, inflight, hasCollection,
               chatVars, fnVars, stepVars, sessionVars, uiVars>>

\* POST /api/projects
CreateProject ==
    \E name \in {<<"n">>, <<>>}, demoUser \in BOOLEAN, insert \in DbOutcomes,
       id \in ProjectIds, outcome \in WorkspaceOutcomes :
        /\ Unused(id)
        /\ req' = [op |-> "createProject", name |-> name]
        /\ IF name = <<>>
           THEN /\ resp' = [status |-> 400]
                /\ UNCHANGED <<projectRows, workspaces>>
           ELSE IF ~demoUser
           THEN /\ resp' = [status |-> 400]
                /\ UNCHANGED <<projectRows, workspaces>>
           ELSE IF insert = "throws"
           THEN /\ resp' = [status |-> 500]
                /\ UNCHANGED <<projectRows, workspaces>>
           ELSE LET ensured == ensureWorkspace(workspaces, id, outcome)
                IN  /\ projectRows' = projectRows \cup {id}
                    /\ workspaces' = ensured.workspaces
                    /\ resp' = IF ensured.threw
                               THEN [status |-> 500]
                               ELSE [status |-> 201, project |-> id]
        /\ UNCHANGED <<fileRows, collections, otherVars>>

\* DELETE /api/projects/:id
DeleteProject(id) ==
    \E reachable \in BOOLEAN, delete \in DbOutcomes :
        /\ req' = [op |-> "deleteProject", id |-> id]
        /\ IF id \notin projectRows
           THEN /\ resp' = [status |-> 404]
                /\ UNCHANGED <<projectRows, fileRows, collections>>
           ELSE /\ collections' = DropCollection(collections, id, reachable)
                /\ IF delete = "throws"
                   THEN /\ resp' = [status |-> 500]
                        /\ UNCHANGED <<projectRows, fileRows>>
                   ELSE /\ projectRows' = projectRows \ {id}
                        /\ fileRows' = CascadeFiles(fileRows, id)
                        /\ resp' = [status |-> 200]
        /\ UNCHANGED <<workspaces, otherVars>>

\* POST /api/files/update for a project; the insert violates the foreign key
\* files.project_id when the project has no row
ProjectUpdateFile(projectId) ==
    \E path \in ProjectPaths, outcome \in IndexOutcomes :
        /\ req' = [op |-> "update", projectId |-> projectId, path |-> path]
        /\ IF projectId \notin projectRows
           THEN /\ resp' = [status |-> 500]
                /\ UNCHANGED <<fileRows, collections>>
           ELSE /\ fileRows' = InsertFile(fileRows, projectId, path,
                                          ProjectContent, <<"js">>)
                /\ IF outcome = "unreachable"
                   THEN /\ resp' = [status |-> 500]
                        /\ UNCHANGED collections
                   ELSE LET colls == getOrCreateCollection(collections,
                                                           projectId)
                            name == CollectionName(projectId)
                        IN  IF outcome = "rejected"
                            THEN /\ collections' = colls
                                 /\ resp' = [status |-> 500]
                            ELSE /\ collections' =
                                        [colls EXCEPT ![name] =
                                            upsertFiles(@, projectId,
                                                <<[path |-> path,
                                                   content |-> ProjectContent,
                                                   language |-> <<"js">>]>>)]
                                 /\ resp' = [status |-> 200]
        /\ UNCHANGED <<projectRows, workspaces, otherVars>>

\* DELETE /api/files/:projectId/* for a project
ProjectDeleteFile(projectId) ==
    \E path \in ProjectPaths, outcome \in IndexOutcomes :
        /\ req' = [op |-> "delete", projectId |-> projectId, path |-> path]
        /\ IF \A r \in fileRows : ~Matches(r, projectId, path)
           THEN /\ resp' = [status |-> ErrorStatus(FileNotFound(path))]
                /\ UNCHANGED <<fileRows, collections>>
           ELSE /\ fileRows' = DeleteFileRows(fileRows, projectId, path)
                /\ IF outcome = "unreachable"
                   THEN /\ resp' = [status |-> 500]
                        /\ UNCHANGED collections
                   ELSE LET colls == getOrCreateCollection(collections,
                                                           projectId)
                            name == CollectionName(projectId)
                        IN  IF outcome = "rejected"
                            THEN /\ collections' = colls
                                 /\ resp' = [status |-> 500]
                            ELSE /\ collections' =
                                        [colls EXCEPT ![name] =
                                            deleteFiles(@, projectId,
                                                        <<path>>)]
                                 /\ resp' = [status |-> 200]
        /\ UNCHANGED <<projectRows, workspaces, otherVars>>

\* POST /api/files/search for a project
ProjectSearchFiles(projectId) ==
    LET colls == getOrCreateCollection(collections, projectId)
        coll == colls[CollectionName(projectId)]
    IN  \E answer \in StoreAnswers(coll) :
            LET results == queryRelevantFiles(coll, DefaultTopK, answer)
            IN  /\ req' = [op |-> "search", projectId |-> projectId,
                           outcome |-> answer.outcome]
                /\ resp' = IF results.threw
                           THEN [status |-> 500]
                           ELSE [status |-> 200, results |-> results.files]
                /\ collections' = IF answer.outcome = "collection_throws"
                                  THEN collections
                                  ELSE colls
                /\ UNCHANGED <<projectRows, workspaces, fileRows, otherVars>>

NextProjects ==
    \/ CreateProject
    \/ \E id \in ProjectIds :
        \/ DeleteProject(id)
        \/ ProjectUpdateFile(id)
        \/ ProjectDeleteFile(id)
        \/ ProjectSearchFiles(id)

SpecProjects == Init /\ [][NextProjects]_vars

-----------------------------------------------------------------------------
(* Properties of the stores of all projects (SpecProjects) *)

\* C21: between requests, every project row has a workspace in the
\* orchestrator and every workspace belongs to a project row.
C21_WorkspacePerProject == projectRows = workspaces

\* the project has a Chroma collection
HasIndex(colls, id) == CollectionName(id) \in DOMAIN colls

\* C29: a DELETE /projects/:id for a project that has rows and an index ends
\* with both still there or with both gone.
C29_RowsAndIndexTogether ==
    [][\A id \in ProjectIds :
        (DeleteProject(id) /\ id \in projectRows /\ HasIndex(collections, id))
            => ((id \in projectRows') <=> HasIndex(collections', id))]_vars

\* the file rows of a project
RowsOf(rows, id) == {r \in rows : r.project_id = id}

\* the collection of a project, if it has one
IndexOf(colls, id) ==
    IF HasIndex(colls, id)
    THEN [exists |-> TRUE, entries |-> colls[CollectionName(id)]]
    ELSE [exists |-> FALSE]

\* a file, index or retrieval operation issued for the project
OperationFor(id) ==
    \/ ProjectUpdateFile(id)
    \/ ProjectDeleteFile(id)
    \/ ProjectSearchFiles(id)
    \/ DeleteProject(id)

\* the file is an entry upsertFiles wrote for the project
IndexedFor(colls, id, file) ==
    /\ HasIndex(colls, id)
    /\ \E e \in DOMAIN colls[CollectionName(id)] :
        /\ e[1] = id
        /\ colls[CollectionName(id)][e].path = file.path
        /\ colls[CollectionName(id)][e].document = file.content

\* C30: an operation issued for project P leaves the file rows and the
\* index of every other project Q as they were, and every file a retrieval
\* for P returns is an entry indexed for P.
C30_ProjectsIsolated ==
    [][\A P \in ProjectIds :
        OperationFor(P) =>
            /\ \A Q \in ProjectIds \ {P} :
                /\ RowsOf(fileRows', Q) = RowsOf(fileRows, Q)
                /\ IndexOf(collections', Q) = IndexOf(collections, Q)
            /\ (ProjectSearchFiles(P) /\ resp'.status = 200) =>
                \A i \in DOMAIN resp'.results :
                    IndexedFor(collections', P, resp'.results[i])]_vars

\* both projects hold an indexed file c, and a retrieval for p1 has just
\* returned its own
C30_Witness ==
    /\ \A id \in ProjectIds :
        /\ RowsOf(fileRows, id) # {}
        /\ HasIndex(collections, id)
        /\ EntryId(id, <<"c">>) \in DOMAIN collections[CollectionName(id)]
    /\ req.op = "search" /\ req.projectId = ProjectId
    /\ resp.status = 200
    /\ Len(resp.results) > 0

-----------------------------------------------------------------------------
(* Concurrent POST /chat/send handlers of one project and its chat         *)
(* sessions.  getOrCreateSession suspends at its SELECT and at its INSERT, *)
(* saveMessage at its INSERT; no statement locks chat_sessions and the     *)
(* table has no unique key on project_id.                                  *)

\* most chat requests one client sends
MaxSends == 2

\* a row of chat_sessions with the chat_messages rows that reference it
NewSession == [project_id |-> ProjectId, messages |-> <<>>]

\* SELECT * FROM chat_sessions WHERE project_id = $1
\* ORDER BY updated_at DESC LIMIT 1: the id of the row, 0 for no row
MostRecentSession(rows) == Len(rows)

nonSessionVars == <<raw, parsed, fileStore, index, req, resp, inflight,
                    hasCollection, chatVars, fnVars, stepVars, tenantVars,
                    uiVars>>

\* POST /chat/send up to the SELECT of getOrCreateSession
SendSelect(s) ==
    /\ senders[s].pc = "idle"
    /\ senders[s].sent < MaxSends
    /\ senders' = [senders EXCEPT
                      ![s].sessionId = MostRecentSession(sessions),
                      ![s].pc = IF MostRecentSession(sessions) > 0
                                THEN "session"
                                ELSE "insert"]
    /\ UNCHANGED <<sessions, nonSessionVars>>

\* getOrCreateSession: no row was selected, INSERT INTO chat_sessions
SendInsert(s) ==
    /\ senders[s].pc = "insert"
    /\ sessions' = Append(sessions, NewSession)
    /\ senders' = [senders EXCEPT ![s].sessionId = Len(sessions) + 1,
                                  ![s].pc = "session"]
    /\ UNCHANGED nonSessionVars

\* saveMessage(session.id, 'user', message)
SendSaveUser(s) ==
    /\ senders[s].pc = "session"
    /\ sessions' = [sessions EXCEPT ![senders[s].sessionId].messages =
                       Append(@, [role |-> "user", from |-> s])]
    /\ senders' = [senders EXCEPT ![s].pc = "asked"]
    /\ UNCHANGED nonSessionVars

\* saveMessage(session.id, 'assistant', response.message, ..) and res.json
\* with sessionId: session.id
SendSaveAssistant(s) ==
    /\ senders[s].pc = "asked"
    /\ sessions' = [sessions EXCEPT ![senders[s].sessionId].messages =
                       Append(@, [role |-> "assistant", from |-> s])]
    /\ senders' = [senders EXCEPT ![s].pc = "idle", ![s].sent = @ + 1]
    /\ UNCHANGED nonSessionVars

NextSessions ==
    \E s \in Slots :
        \/ SendSelect(s)
        \/ SendInsert(s)
        \/ SendSaveUser(s)
        \/ SendSaveAssistant(s)

SpecSessions == Init /\ [][NextSessions]_vars

\* C25: however the chat requests of a project interleave, at most one
\* session row exists for it and every message is stored in that session.
C25_OneSessionPerProject ==
    /\ Len(sessions) <= 1
    /\ \A s \in Slots :
        senders[s].pc \in {"session", "asked"} => senders[s].sessionId = 1

-----------------------------------------------------------------------------
(* The frontend: App with useProjects, useFileSystem(currentProject?.id)   *)
(* and MonacoEditor (file = currentFile, onSave = saveFile, onChange =     *)
(* updateFileContent).  A state is what the components hold after a       *)
(* render; an effect scheduled by a render is a step of its own, and so is *)
(* the continuation of a hook function after its awaited request.  Here a  *)
(* request either takes effect on the relational rows or fails.            *)

\* most requests of the file hook awaiting their response
MaxPending == 2

\* what the user types into the editor
EditedText == <<"z">>

\* the path of the file each project holds
UiPath == <<"c">>

\* what a request of the frontend meets: an answer, or an error the hook
\* catches
ApiOutcomes == {"ok", "fails"}

\* the projects in the order GET /projects lists them
RECURSIVE ProjectLists(_)
ProjectLists(ids) ==
    IF ids = {}
    THEN {<<>>}
    ELSE UNION {{<<id>> \o rest : rest \in ProjectLists(ids \ {id})} :
                   id \in ids}

\* prev.filter((p) => p.id !== id)
RECURSIVE WithoutProject(_, _)
WithoutProject(list, id) ==
    IF list = <<>>
    THEN <<>>
    ELSE IF Head(list) = id
    THEN WithoutProject(Tail(list), id)
    ELSE <<Head(list)>> \o WithoutProject(Tail(list), id)

\* projects[0] || null
FirstOrNull(list) == IF list = <<>> THEN NoProject ELSE list[1]

\* deleteProject: if (currentProject && currentProject.id === id)
\* setCurrentProject(projects[0] || null), with the list of the render the
\* callback was made in
CurrentAfterDelete(list, current, id) ==
    IF current # NoProject /\ current = id
    THEN FirstOrNull(list)
    ELSE current

\* the file object a response carries: the row with its project_id
OpenedFile(row) ==
    [open |-> TRUE, project_id |-> row.project_id, path |-> row.path,
     content |-> row.content, language |-> row.language]

\* the editor after a render with a new file object: its text is
\* file.content, and useEffect(() => setHasChanges(false), [file]) is due
EditorShowing(e, file) == [e EXCEPT !.value = file.content,
                                    !.fileChanged = TRUE]

\* the backend of the frontend: two projects, each holding one file
InitFrontend ==
    /\ raw = <<>>
    /\ parsed = NotParsed
    /\ fileStore = NoFiles
    /\ index = NoEntries
    /\ req = [op |-> "none"]
    /\ resp = [status |-> 0]
    /\ inflight = [s \in Slots |-> Idle]
    /\ hasCollection = FALSE
    /\ chat = ChatIdle
    /\ messages = <<>>
    /\ call = NoCall
    /\ ret = NoReturn
    /\ route = RouteIdle
    /\ projectRows = ProjectIds
    /\ workspaces = ProjectIds
    /\ fileRows = {FileRow(ProjectId, UiPath, <<"x">>, <<"js">>),
                   FileRow(UnknownProject, UiPath, <<"y">>, <<"js">>)}
    /\ collections = [name \in {} |-> NoEntries]
    /\ InitSessions
    /\ InitUi

backVars == <<raw, parsed, fileStore, index, inflight, hasCollection,
              chatVars, fnVars, stepVars, sessionVars, workspaces,
              collections>>

\* useProjects.loadProjects: GET /projects, setProjects, and the first
\* project selected when none is
LoadProjects ==
    \E outcome \in ApiOutcomes, list \in ProjectLists(projectRows) :
        /\ req' = [op |-> "listProjects"]
        /\ IF outcome = "ok"
           THEN /\ resp' = [status |-> 200]
                /\ projects' = list
                /\ currentProject' = IF currentProject = NoProject
                                     THEN FirstOrNull(list)
                                     ELSE currentProject
           ELSE /\ resp' = [status |-> 500]
                /\ UNCHANGED <<projects, currentProject>>
        /\ UNCHANGED <<currentFile, editor, pending, projectRows, fileRows,
                       backVars>>

\* useProjects.selectProject, from the project <select> of App
SelectProject ==
    \E i \in DOMAIN projects :
        /\ currentProject' = projects[i]
        /\ UNCHANGED <<projects, currentFile, editor, pending, req, resp,
                       projectRows, fileRows, backVars>>

\* useProjects.deleteProject(id): DELETE /projects/:id, then the list and
\* the selection are updated
RemoveProject(id) ==
    \E outcome \in ApiOutcomes :
        /\ req' = [op |-> "deleteProject", id |-> id]
        /\ IF id \notin projectRows
           THEN /\ resp' = [status |-> 404]
                /\ UNCHANGED <<projects, currentProject, projectRows,
                               fileRows>>
           ELSE IF outcome = "fails"
           THEN /\ resp' = [status |-> 500]
                /\ UNCHANGED <<projects, currentProject, projectRows,
                               fileRows>>
           ELSE /\ resp' = [status |-> 200]
                /\ projectRows' = projectRows \ {id}
                /\ fileRows' = CascadeFiles(fileRows, id)
                /\ projects' = WithoutProject(projects, id)
                /\ currentProject' =
                       CurrentAfterDelete(projects, currentProject, id)
        /\ UNCHANGED <<currentFile, editor, pending, backVars>>

\* useFileSystem.openFile(path) up to await apiService.files.get
OpenFile ==
    /\ currentProject # NoProject
    /\ Cardinality(pending) < MaxPending
    /\ pending' = pending \cup {[op |-> "open", projectId |-> currentProject,
                                 path |-> UiPath]}
    /\ UNCHANGED <<projects, currentProject, currentFile, editor, req, resp,
                   projectRows, fileRows, backVars>>

\* openFile after the await: setCurrentFile(response.data.file), or the
\* catch block
FileOpened ==
    \E r \in pending, outcome \in ApiOutcomes :
        /\ r.op = "open"
        /\ pending' = pending \ {r}
        /\ req' = [op |-> "read", projectId |-> r.projectId, path |-> r.path]
        /\ LET rows == {row \in fileRows : Matches(row, r.projectId, r.path)}
           IN  IF outcome = "ok" /\ rows # {}
               THEN \E row \in rows :
                       /\ resp' = [status |-> 200]
                       /\ currentFile' = OpenedFile(row)
                       /\ editor' = [EditorShowing(editor, OpenedFile(row))
                                        EXCEPT !.edited = FALSE]
               ELSE /\ resp' = [status |-> IF outcome = "ok"
                                           THEN 404 ELSE 500]
                    /\ UNCHANGED <<currentFile, editor>>
        /\ UNCHANGED <<projects, currentProject, projectRows, fileRows,
                       backVars>>

\* the user types: handleEditorChange sets hasChanges and calls onChange,
\* updateFileContent replaces currentFile by a copy with the new content
EditorChange ==
    /\ currentFile.open
    /\ currentFile' = [currentFile EXCEPT !.content = EditedText]
    /\ editor' = [EditorShowing(editor, currentFile') EXCEPT
                     !.hasChanges = TRUE, !.edited = TRUE]
    /\ UNCHANGED <<projects, currentProject, pending, req, resp, projectRows,
                   fileRows, backVars>>

\* useEffect(() => { setHasChanges(false) }, [file])
EditorFileEffect ==
    /\ editor.fileChanged
    /\ editor' = [editor EXCEPT !.hasChanges = FALSE, !.fileChanged = FALSE]
    /\ UNCHANGED <<projects, currentProject, currentFile, pending, req, resp,
                   projectRows, fileRows, backVars>>

\* the Save button: handleSave up to await onSave, saveFile up to await
\* apiService.files.update with the hook's projectId
ClickSave ==
    /\ currentFile.open
    /\ editor.hasChanges /\ ~editor.isSaving
    /\ editor' = [editor EXCEPT !.isSaving = TRUE]
    /\ pending' = pending \cup
                     (IF currentProject = NoProject
                      THEN {[op |-> "save", sent |-> FALSE]}
                      ELSE {[op |-> "save", sent |-> TRUE,
                             projectId |-> currentProject,
                             path |-> currentFile.path,
                             content |-> editor.value,
                             language |-> currentFile.language]})
    /\ UNCHANGED <<projects, currentProject, currentFile, req, resp,
                   projectRows, fileRows, backVars>>

\* saveFile after the await: setCurrentFile(response.data.file), or the
\* catch block, which returns null; then handleSave: setHasChanges(false),
\* setIsSaving(false)
FileSaved ==
    \E r \in pending, outcome \in ApiOutcomes :
        /\ r.op = "save"
        /\ pending' = pending \ {r}
        /\ IF ~r.sent
           THEN /\ editor' = [editor EXCEPT !.hasChanges = FALSE,
                                            !.isSaving = FALSE]
                /\ UNCHANGED <<currentFile, req, resp, fileRows>>
           ELSE /\ req' = [op |-> "update", projectId |-> r.projectId,
                           path |-> r.path, content |-> r.content]
                /\ IF outcome = "ok" /\ r.projectId \in projectRows
                   THEN LET row == FileRow(r.projectId, r.path, r.content,
                                           r.language)
                        IN  /\ resp' = [status |-> 200]
                            /\ fileRows' = InsertFile(fileRows, r.projectId,
                                              r.path, r.content, r.language)
                            /\ currentFile' = OpenedFile(row)
                            /\ editor' =
                                   [EditorShowing(editor, OpenedFile(row))
                                       EXCEPT !.hasChanges = FALSE,
                                              !.isSaving = FALSE,
                                              !.edited = FALSE]
                   ELSE /\ resp' = [status |-> 500]
                        /\ editor' = [editor EXCEPT !.hasChanges = FALSE,
                                                    !.isSaving = FALSE]
                        /\ UNCHANGED <<currentFile, fileRows>>
        /\ UNCHANGED <<projects, currentProject, projectRows, backVars>>

NextFrontend ==
    \/ LoadProjects
    \/ SelectProject
    \/ \E id \in ProjectIds : RemoveProject(id)
    \/ OpenFile
    \/ FileOpened
    \/ EditorChange
    \/ EditorFileEffect
    \/ ClickSave
    \/ FileSaved

SpecFrontend == InitFrontend /\ [][NextFrontend]_vars

-----------------------------------------------------------------------------
(* Properties of the frontend (SpecFrontend) *)

\* no request of the file hook is awaited and no effect is due: nothing
\* happens until the user acts
Quiescent == pending = {} /\ ~editor.fileChanged

\* C22: once the frontend has come to rest after an edit of the open file,
\* the edited text has been sent to the backend in a POST /files/update.
C22_EditsAreSent ==
    (Quiescent /\ currentFile.open /\ editor.edited) =>
        /\ req.op = "update"
        /\ req.path = currentFile.path
        /\ req.content = editor.value

\* C26: at rest, the open file is a file of the selected project.
C26_OpenFileOfCurrentProject ==
    (Quiescent /\ currentFile.open) =>
        currentFile.project_id = currentProject

\* C27: from an edit of the open file until a save succeeds or a file is
\* opened, hasChanges is true whenever no save is in progress.
C27_HasChangesUntilSaved ==
    (currentFile.open /\ editor.edited /\ ~editor.isSaving) =>
        editor.hasChanges

\* the project is in the list of the hook
Listed(list, id) == \E i \in DOMAIN list : list[i] = id

\* C28: after deleteProject(id) has succeeded, the project is not in
\* projects, and currentProject is null or a project in projects.
C28_DeletedProjectNotCurrent ==
    [][\A id \in ProjectIds :
        (RemoveProject(id) /\ resp'.status = 200) =>
            /\ ~Listed(projects', id)
            /\ currentProject' # id
            /\ currentProject' = NoProject
                   \/ Listed(projects', currentProject')]_vars

=============================================================================
